---- MODULE Spec2Model ----
(***************************************************************************)
(* A model of harmonic's Action framework: the leaf actions that keep     *)
(* their own action_state (CreateGroup, CreateVolume, EnableOwnership,     *)
(* MoveUnpackedNix, CreateUser), the sequential composite CreateNixVolume, *)
(* the serial/parallel composite CreateUsersAndGroups, the install         *)
(* subcommand that drives a plan of top-level actions, the planning,       *)
(* execution and reversal of CreateOrMergeNixConfig, the planning of       *)
(* users and groups, the parallel composite ConfigureShellProfile and the  *)
(* planners LinuxMulti and DarwinMulti.                                    *)
(*                                                                         *)
(* Nine specifications share the module:                                   *)
(*   Spec           one leaf action driven by execute / revert calls       *)
(*   SpecVolume     CreateNixVolume.execute / revert over its children     *)
(*   SpecVolumeLive SpecVolume with a fair wait for the volume             *)
(*   SpecUsers      CreateUsersAndGroups.execute / revert over its children*)
(*   SpecInstall    the install subcommand over a plan of top-level actions*)
(*   SpecNixConfig  CreateOrMergeNixConfig planned, executed and reverted  *)
(*   SpecPlan       CreateUsersAndGroups::plan over the host's users       *)
(*   SpecShell      ConfigureShellProfile planned, executed and reverted   *)
(*   SpecPlanner    LinuxMulti::plan and DarwinMulti::plan over a host     *)
(* Each pins the variables of the others.                                  *)
(***************************************************************************)
EXTENDS Integers, Sequences, FiniteSets, TLC

VARIABLES
    \* ---- leaf actions (Spec)
    action,        \* which leaf action the object is
    host,          \* target_lexicon::OperatingSystem::host()
    action_state,  \* the action's action_state field
    history,       \* one record per execute / revert call made so far
    \* ---- composites (SpecVolume, SpecUsers)
    encrypt,       \* CreateNixVolume.encrypt (encrypt_volume is Some)
    slots,         \* CreateUsersAndGroups.create_users: the child held at each index
    children,      \* child -> the state the parent holds for it
    tasks,         \* spawned child index -> [phase, state] of its clone
    running,       \* the children whose try_execute / try_revert is in flight
    errors,        \* the `errors` vector: how many child errors were pushed
    pc,            \* where the composite's handler is
    op,            \* "none", "execute" or "revert": the handler being run
    pos,           \* index into the handler's child order
    retry_tokens,  \* the poll loop's retry budget
    polls,         \* the `diskutil info /nix` runs and the sleeps of the current
                   \* handler run
    ret,           \* what the last handler run returned
    runs,          \* handler runs begun so far
    log,           \* the events of the handler runs, in order (CreateNixVolume:
                   \* of every run; CreateUsersAndGroups: of the latest run)
    \* ---- the install subcommand (SpecInstall)
    no_confirm,        \* Install.no_confirm
    selection,         \* which of Install.planner / Install.plan were given
    chosen,            \* the chosen planner: its typetag name and settings
    existing_receipt,  \* what was read at RECEIPT_LOCATION
    install_plan,      \* the InstallPlan being installed
    ipc,               \* where Install::execute is
    idx,               \* the action the plan's install / uninstall loop is at
    signal,            \* the cancellation signal has been raised
    exit_code,         \* how the process ended
    stderr,            \* the refusal message printed
    revert_errors,     \* errors collected by the plan's uninstall
    ilog,              \* the events of the run, in order
    \* ---- CreateOrMergeNixConfig (SpecNixConfig)
    path_file,           \* what is at CreateOrMergeNixConfig.path
    temp_file,           \* what is at the temporary path next to it
    pending_nix_config,  \* the settings plan() was asked for
    nix_configs,         \* CreateOrMergeNixConfig.nix_configs
    conf_state,          \* the planned action's action_state
    conf_pc,             \* where plan / execute / revert is
    conf_result,         \* what the last call of plan / execute / revert returned
    conf_seen,           \* what was at path when plan and execute began
    \* ---- planning users and groups (SpecPlan)
    settings,      \* the CommonSettings given to CreateUsersAndGroups::plan
    host_users,    \* index of a planned user -> the host's user of that name
    host_group,    \* the host's group named nix_build_group_name
    host_before,   \* the host's users and group when planning began
    planned,       \* create_group's state and the create_users planned so far
    plan_pc,       \* where CreateUsersAndGroups::plan is
    plan_result,   \* what CreateUsersAndGroups::plan returned
    \* --- planners
    planner,       \* the planner plan() is called on, with its settings
    machine,       \* the host as the planners and the plans they call read it
    pl_self,       \* `self` inside plan(): the planner with root_disk filled in
    pl_pc,         \* where Planner::plan is
    pl_actions,    \* the actions planned so far by the running call
    pl_result,     \* what the last call of plan returned
    pl_seen,       \* calls made, the call before's result, probes, the host at first
    \* --- ConfigureShellProfile
    profile_files, \* the host's shell profile files, by path
    planned_files  \* the profile files as ConfigureShellProfile::plan found them

leafVars == <<action, host, action_state, history>>
compVars == <<encrypt, slots, children, tasks, running, errors,
              pc, op, pos, retry_tokens, polls, ret, runs, log>>
instVars == <<no_confirm, selection, chosen, existing_receipt, install_plan,
              ipc, idx, signal, exit_code, stderr, revert_errors, ilog>>
confVars == <<path_file, temp_file, pending_nix_config, nix_configs,
              conf_state, conf_pc, conf_result, conf_seen>>
planVars == <<settings, host_users, host_group, host_before, planned,
              plan_pc, plan_result>>
plnVars == <<planner, machine, pl_self, pl_pc, pl_actions, pl_result, pl_seen>>
shVars == <<profile_files, planned_files>>
moreVars == <<plnVars, shVars>>
baseVars == <<confVars, planVars, moreVars>>
vars == <<leafVars, compVars, instVars, baseVars>>

\* ------------------------------------------------------------------ bounds
\* Calls made on one leaf action.
MaxCalls == 3
\* nix_build_user_count of the modelled settings.
NumUsers == 2
\* Handler runs (execute or revert) made on one composite.
MaxRuns == 2

\* ------------------------------------------------------------- ActionState
Uncompleted == "Uncompleted"
Progress == "Progress"
Completed == "Completed"
ActionState == {Uncompleted, Progress, Completed}

Hosts == {"Linux", "MacOS"}

\* =========================================================================
\* Leaf actions
\* =========================================================================
LeafActions == {"CreateGroup", "CreateVolume", "EnableOwnership",
                "MoveUnpackedNix", "CreateUser"}

Cmd(c, o) == [cmd |-> c, out |-> o]

\* execute_command chained with `?`: the commands of cs run in order until
\* the first one that fails; each outcome is the log of what ran and whether
\* all of it succeeded.
execute_command(cs) ==
    {[ok |-> TRUE, cmds |-> [i \in 1..Len(cs) |-> Cmd(cs[i], "ok")]]}
    \cup {[ok |-> FALSE,
           cmds |-> [i \in 1..k |-> Cmd(cs[i], IF i = k THEN "fail" ELSE "ok")]]
          : k \in 1..Len(cs)}

\* One finished call: the handler, the state before and after, what it
\* returned ("ok", "err", or "panic" for an unwinding assertion) and the
\* OS commands and file operations it issued.
Call(o, pre, post, res, cmds) ==
    [op |-> o, pre |-> pre, post |-> post, res |-> res, cmds |-> cmds]

\* The early return of a state guard: success, nothing issued, state kept.
NoOp(o, st) == Call(o, st, st, "ok", <<>>)

\* A handler made of one `?`-chain of commands that then sets `done`.
Chain(o, st, cs, done) ==
    {Call(o, st, IF r.ok THEN done ELSE st, IF r.ok THEN "ok" ELSE "err", r.cmds)
     : r \in execute_command(cs)}

Alive == \A i \in 1..Len(history) : history[i].res # "panic"

Record(c) ==
    /\ action_state' = c.post
    /\ history' = Append(history, c)
    /\ UNCHANGED <<action, host, compVars, instVars, baseVars>>

CanCall(a) == action = a /\ Len(history) < MaxCalls /\ Alive

\* ------------------------------------------------------------ CreateGroup
CreateGroup_execute_calls(st, os) ==
    IF st = Completed THEN {NoOp("execute", st)}
    ELSE IF os = "MacOS" THEN
        \* dscl -read: spawn failure is an error, a zero status means the
        \* group exists, a non-zero status leads to dseditgroup.
        {Call("execute", st, st, "err", <<Cmd("dscl_read", "fail")>>),
         Call("execute", st, Completed, "ok", <<Cmd("dscl_read", "ok")>>)}
        \cup {Call("execute", st, c.post, c.res,
                   <<Cmd("dscl_read", "absent")>> \o c.cmds)
              : c \in Chain("execute", st, <<"dseditgroup_create">>, Completed)}
    ELSE Chain("execute", st, <<"groupadd">>, Completed)

CreateGroup_execute ==
    /\ CanCall("CreateGroup")
    /\ \E c \in CreateGroup_execute_calls(action_state, host) : Record(c)

CreateGroup_revert_calls(st, os) ==
    IF st = Uncompleted THEN {NoOp("revert", st)}
    ELSE IF os = "MacOS" THEN {Call("revert", st, Uncompleted, "ok", <<>>)}
    ELSE Chain("revert", st, <<"groupdel">>, Uncompleted)

CreateGroup_revert ==
    /\ CanCall("CreateGroup")
    /\ \E c \in CreateGroup_revert_calls(action_state, host) : Record(c)

\* ----------------------------------------------------------- CreateVolume
\* Faulty variant: the Completed guard dropped: the command is run again.
CreateVolume_execute_Unguarded(st) ==
    Chain("execute", st, <<"diskutil_apfs_addVolume">>, Completed)

CreateVolume_execute_calls(st) ==
    IF st = Completed THEN {NoOp("execute", st)}
    ELSE Chain("execute", st, <<"diskutil_apfs_addVolume">>, Completed)

CreateVolume_execute ==
    /\ CanCall("CreateVolume")
    /\ \E c \in CreateVolume_execute_calls(action_state) : Record(c)

CreateVolume_revert_calls(st) ==
    IF st = Uncompleted THEN {NoOp("revert", st)}
    ELSE Chain("revert", st, <<"diskutil_apfs_deleteVolume">>, Completed)

CreateVolume_revert ==
    /\ CanCall("CreateVolume")
    /\ \E c \in CreateVolume_revert_calls(action_state) : Record(c)

\* -------------------------------------------------------- EnableOwnership
EnableOwnership_execute_calls(st) ==
    IF st = Completed THEN {NoOp("execute", st)}
    ELSE
        \* diskutil info -plist: the command fails, its output does not
        \* parse (unwrap panics), or it yields global_permissions_enabled,
        \* and enableOwnership is run only when that flag is true.
        {Call("execute", st, st, "err", <<Cmd("diskutil_info_plist", "fail")>>),
         Call("execute", st, st, "panic", <<Cmd("diskutil_info_plist", "unparsed")>>),
         Call("execute", st, Completed, "ok", <<Cmd("diskutil_info_plist", "gpe_false")>>)}
        \cup {Call("execute", st, c.post, c.res,
                   <<Cmd("diskutil_info_plist", "gpe_true")>> \o c.cmds)
              : c \in Chain("execute", st, <<"diskutil_enableOwnership">>, Completed)}

EnableOwnership_execute ==
    /\ CanCall("EnableOwnership")
    /\ \E c \in EnableOwnership_execute_calls(action_state) : Record(c)

EnableOwnership_revert_calls(st) ==
    IF st = Uncompleted THEN {NoOp("revert", st)}
    ELSE {Call("revert", st, Completed, "ok", <<>>)}

EnableOwnership_revert ==
    /\ CanCall("EnableOwnership")
    /\ \E c \in EnableOwnership_revert_calls(action_state) : Record(c)

\* -------------------------------------------------------- MoveUnpackedNix
\* plan(src): no check of src or of the destination is made; the plan is
\* Uncompleted whatever number of `nix-*` entries src holds.
MoveUnpackedNix_plan(found) == [res |-> "Ok", state |-> Uncompleted]

MoveUnpackedNix_execute_calls(st) ==
    IF st = Completed THEN {NoOp("execute", st)}
    ELSE
        \* glob fails, or finds a number of paths other than one (assert_eq
        \* panics), or finds one and the rename / remove_dir_all chain runs.
        {Call("execute", st, st, "err", <<Cmd("glob", "fail")>>),
         Call("execute", st, st, "panic", <<Cmd("glob", "not_one")>>)}
        \cup {Call("execute", st, c.post, c.res, <<Cmd("glob", "ok")>> \o c.cmds)
              : c \in Chain("execute", st, <<"rename", "remove_dir_all">>, Completed)}

MoveUnpackedNix_execute ==
    /\ CanCall("MoveUnpackedNix")
    /\ \E c \in MoveUnpackedNix_execute_calls(action_state) : Record(c)

\* Faulty variant: revert moves the store back.
MoveUnpackedNix_revert_Moves(st) == Chain("revert", st, <<"rename">>, Uncompleted)

MoveUnpackedNix_revert_calls(st) == {NoOp("revert", st)}

MoveUnpackedNix_revert ==
    /\ CanCall("MoveUnpackedNix")
    /\ \E c \in MoveUnpackedNix_revert_calls(action_state) : Record(c)

\* ------------------------------------------------------------- CreateUser
CreateUser_execute_cmds(os) ==
    IF os = "MacOS"
    THEN <<"dscl_create", "dscl_create_UniqueID", "dscl_create_PrimaryGroupID",
           "dscl_create_NFSHomeDirectory", "dscl_create_UserShell",
           "dscl_append_GroupMembership", "dscl_create_IsHidden",
           "dseditgroup_edit">>
    ELSE <<"useradd">>

\* Faulty variant: Completed is set before the commands are run.
CreateUser_execute_EarlyCompleted(st, os) ==
    IF st = Completed THEN {NoOp("execute", st)}
    ELSE {Call("execute", st, Completed, c.res, c.cmds)
          : c \in Chain("execute", st, CreateUser_execute_cmds(os), Completed)}

CreateUser_execute_calls(st, os) ==
    IF st = Completed THEN {NoOp("execute", st)}
    ELSE Chain("execute", st, CreateUser_execute_cmds(os), Completed)

CreateUser_execute ==
    /\ CanCall("CreateUser")
    /\ \E c \in CreateUser_execute_calls(action_state, host) : Record(c)

\* Faulty variant: the Uncompleted guard dropped: the user is deleted again.
CreateUser_revert_Unguarded(st, os) ==
    Chain("revert", st,
          IF os = "MacOS" THEN <<"dscl_delete">> ELSE <<"userdel">>,
          Uncompleted)

CreateUser_revert_calls(st, os) ==
    IF st = Uncompleted THEN {NoOp("revert", st)}
    ELSE Chain("revert", st,
               IF os = "MacOS" THEN <<"dscl_delete">> ELSE <<"userdel">>,
               Uncompleted)

CreateUser_revert ==
    /\ CanCall("CreateUser")
    /\ \E c \in CreateUser_revert_calls(action_state, host) : Record(c)

\* No receipt at RECEIPT_LOCATION / no plan built yet.
NoReceipt == [kind |-> "none", planner |-> "", settings |-> "", actions |-> <<>>]
NoPlan == [origin |-> "none", planner |-> "", settings |-> "", actions |-> <<>>]

\* The install subcommand is not being run.
InstIdle ==
    /\ no_confirm = FALSE
    /\ selection = "none"
    /\ chosen = [tag |-> "", settings |-> ""]
    /\ existing_receipt = NoReceipt
    /\ install_plan = NoPlan
    /\ ipc = "idle"
    /\ idx = 0
    /\ signal = FALSE
    /\ exit_code = "none"
    /\ stderr = ""
    /\ revert_errors = 0
    /\ ilog = <<>>

\* Nothing is at a path.
NoFile == [kind |-> "none", mode |-> 0, lines |-> <<>>]

\* A CreateOrMergeNixConfig as plan() first builds it: no existing
\* configuration, an empty merged one.
NoConfigs == [existing_nix_config |-> [some |-> FALSE, settings |-> <<>>],
              merged_nix_config |-> <<>>]

NoResult == [op |-> "none", pre |-> "none", res |-> "none", err |-> "",
             names |-> <<>>, path |-> ""]

\* No CreateOrMergeNixConfig is being planned or run.
ConfIdle ==
    /\ path_file = NoFile
    /\ temp_file = NoFile
    /\ pending_nix_config = <<>>
    /\ nix_configs = NoConfigs
    /\ conf_state = "none"
    /\ conf_pc = "off"
    /\ conf_result = NoResult
    /\ conf_seen = [plan |-> NoFile, execute |-> NoFile, edited |-> FALSE]

\* No entry of that name on the host.
NoEntry == [exists |-> FALSE, uid |-> 0, gid |-> 0]

\* CreateUsersAndGroups::plan has planned nothing yet.
NoPlanned == [create_group |-> "none", create_users |-> <<>>]

\* No users and groups are being planned.
PlanIdle ==
    /\ settings = [nix_build_user_count |-> 0, nix_build_group_id |-> 0,
                   nix_build_user_id_base |-> 0]
    /\ host_users = <<>>
    /\ host_group = NoEntry
    /\ host_before = [users |-> <<>>, group |-> NoEntry]
    /\ planned = NoPlanned
    /\ plan_pc = "off"
    /\ plan_result = [res |-> "none", err |-> "", state |-> "none"]

\* No planner has been called.
NoPlanner == [kind |-> "none", volume_encrypt |-> FALSE, volume_label |-> "",
              root_disk |-> "none"]
NoInstallPlan == [res |-> "none", err |-> "", planner |-> NoPlanner, actions |-> <<>>]
PlannerIdle ==
    /\ planner = NoPlanner
    /\ machine = <<>>
    /\ pl_self = NoPlanner
    /\ pl_pc = "off"
    /\ pl_actions = <<>>
    /\ pl_result = NoInstallPlan
    /\ pl_seen = <<>>

\* No shell profile is being configured.
ShellIdle ==
    /\ profile_files = <<>>
    /\ planned_files = <<>>

MoreIdle == PlannerIdle /\ ShellIdle

BaseIdle ==
    /\ ConfIdle
    /\ PlanIdle
    /\ MoreIdle

\* No `diskutil info /nix` was run: attempts made, sleeps made, whether an
\* attempt succeeded, attempts made after one that succeeded.
NoPolls == [attempts |-> 0, sleeps |-> 0, success |-> FALSE, late |-> 0]

\* ------------------------------------------------------------------- Spec
CompIdle ==
    /\ encrypt = FALSE
    /\ slots = <<>>
    /\ children = <<>>
    /\ tasks = <<>>
    /\ running = {}
    /\ errors = 0
    /\ pc = "idle"
    /\ op = "none"
    /\ pos = 0
    /\ retry_tokens = 0
    /\ polls = NoPolls
    /\ ret = "none"
    /\ runs = 0
    /\ log = <<>>

\* Every plan() of these actions returns action_state Uncompleted.
Init ==
    /\ action \in LeafActions
    /\ host \in Hosts
    /\ action_state = Uncompleted
    /\ history = <<>>
    /\ CompIdle
    /\ InstIdle
    /\ BaseIdle

Next ==
    \/ CreateGroup_execute
    \/ CreateGroup_revert
    \/ CreateVolume_execute
    \/ CreateVolume_revert
    \/ EnableOwnership_execute
    \/ EnableOwnership_revert
    \/ MoveUnpackedNix_execute
    \/ MoveUnpackedNix_revert
    \/ CreateUser_execute
    \/ CreateUser_revert

Spec == Init /\ [][Next]_vars

\* =========================================================================
\* StatefulAction: try_execute / try_revert around a child action
\* =========================================================================
\* try_execute returns at once on a Completed child, try_revert on an
\* Uncompleted one, without calling the child's handler.
try_skips(o, st) == IF o = "execute" THEN st = Completed ELSE st = Uncompleted

\* The child's state while its handler runs.
try_begin(o, st) == IF try_skips(o, st) THEN st ELSE Progress

\* The ways the call can end: a skipped call only succeeds.
try_outcomes(st) == IF st = Progress THEN {TRUE, FALSE} ELSE {TRUE}

\* The child's state once the call has returned.
try_end(o, st, ok) ==
    IF st = Progress /\ ok
    THEN (IF o = "execute" THEN Completed ELSE Uncompleted)
    ELSE st

\* One event of a handler run.
Ev(r, o, e, c) == [run |-> r, op |-> o, ev |-> e, c |-> c]

Range(q) == {q[i] : i \in DOMAIN q}

\* A handler is entered: execute or revert of the composite. `past` is what
\* is kept of the events of the earlier runs.
Begin(o, past) ==
    /\ pc = "idle"
    /\ runs < MaxRuns
    /\ runs' = runs + 1
    /\ op' = o
    /\ ret' = "none"
    /\ errors' = 0
    /\ log' = Append(past, Ev(runs + 1, o, "begin", "self"))

\* The handler returns res after logging the events es; its locals go.
Return(es, res) ==
    /\ pc' = "idle"
    /\ ret' = res
    /\ pos' = 0
    /\ retry_tokens' = 0
    /\ log' = log \o es \o <<Ev(runs, op, "return_" \o res, "self")>>

\* =========================================================================
\* CreateNixVolume (macOS): a sequential composite
\* =========================================================================
RetryTokens == 50

\* Faulty variant: create_volume is executed before unmount_volume.
NV_execute_steps_Swapped(enc) ==
    <<"create_or_append_synthetic_conf", "create_synthetic_objects",
      "create_volume", "unmount_volume", "create_fstab_entry">>
    \o (IF enc THEN <<"encrypt_volume">> ELSE <<>>)
    \o <<"setup_volume_daemon", "bootstrap_volume",
         "kickstart_launchctl_service", "diskutil_info_nix", "enable_ownership">>

\* The children in the order execute calls them; "diskutil_info_nix" stands
\* for the poll loop between kickstart_launchctl_service and enable_ownership.
NV_execute_steps(enc) ==
    <<"create_or_append_synthetic_conf", "create_synthetic_objects",
      "unmount_volume", "create_volume", "create_fstab_entry">>
    \o (IF enc THEN <<"encrypt_volume">> ELSE <<>>)
    \o <<"setup_volume_daemon", "bootstrap_volume",
         "kickstart_launchctl_service", "diskutil_info_nix", "enable_ownership">>

\* Faulty variant: bootstrap_volume is reverted before kickstart_launchctl_service.
NV_revert_steps_Swapped(enc) ==
    <<"enable_ownership", "bootstrap_volume", "kickstart_launchctl_service",
      "setup_volume_daemon">>
    \o (IF enc THEN <<"encrypt_volume">> ELSE <<>>)
    \o <<"create_fstab_entry", "unmount_volume", "create_volume",
         "create_or_append_synthetic_conf", "create_synthetic_objects">>

\* The children in the order revert calls them.
NV_revert_steps(enc) ==
    <<"enable_ownership", "kickstart_launchctl_service", "bootstrap_volume",
      "setup_volume_daemon">>
    \o (IF enc THEN <<"encrypt_volume">> ELSE <<>>)
    \o <<"create_fstab_entry", "unmount_volume", "create_volume",
         "create_or_append_synthetic_conf", "create_synthetic_objects">>

NV_children(enc) == Range(NV_revert_steps(enc))

NV_steps == IF op = "execute" THEN NV_execute_steps(encrypt)
            ELSE NV_revert_steps(encrypt)

\* Faulty variant: `?` on every child call: no error is dropped.
NV_ignored_None(o, c) == FALSE

\* `.ok()` in place of `?`: the one child call whose error is dropped.
NV_ignored(o, c) == o = "execute" /\ c = "unmount_volume"

CreateNixVolume_execute ==
    /\ Begin("execute", log)
    /\ pc' = "call"
    /\ pos' = 1
    /\ UNCHANGED <<leafVars, instVars, baseVars, encrypt, slots, children, tasks, running, retry_tokens, polls>>

CreateNixVolume_revert ==
    /\ Begin("revert", log)
    /\ pc' = "call"
    /\ pos' = 1
    /\ UNCHANGED <<leafVars, instVars, baseVars, encrypt, slots, children, tasks, running, retry_tokens, polls>>

\* After the step at pos: the next step, or Ok(()) after the last one.
NV_continue(es) ==
    IF pos = Len(NV_steps)
    THEN Return(es, "ok")
    ELSE /\ pc' = "call"
         /\ pos' = pos + 1
         /\ log' = log \o es
         /\ UNCHANGED <<ret, retry_tokens>>

\* child.try_execute() / child.try_revert() is called.
NV_child_call ==
    /\ pc = "call"
    /\ NV_steps[pos] # "diskutil_info_nix"
    /\ LET c == NV_steps[pos] IN
        /\ children' = [children EXCEPT ![c] = try_begin(op, @)]
        /\ running' = running \cup {c}
        /\ log' = Append(log, Ev(runs, op, "start", c))
    /\ pc' = "await"
    /\ UNCHANGED <<leafVars, instVars, baseVars, encrypt, slots, tasks, errors, op, pos, retry_tokens,
                   polls, ret, runs>>

\* The awaited child call returns; its error ends the handler unless dropped.
NV_child_return ==
    /\ pc = "await"
    /\ \E c \in running, ok \in BOOLEAN :
        /\ ok \in try_outcomes(children[c])
        /\ children' = [children EXCEPT ![c] = try_end(op, @, ok)]
        /\ running' = running \ {c}
        /\ IF ok \/ NV_ignored(op, c)
           THEN NV_continue(<<Ev(runs, op, IF ok THEN "ok" ELSE "err", c)>>)
           ELSE Return(<<Ev(runs, op, "err", c)>>, "err")
    /\ polls' = IF pc' = "idle" THEN NoPolls ELSE polls
    /\ UNCHANGED <<leafVars, instVars, baseVars, encrypt, slots, tasks, errors, op, runs>>

\* `let mut retry_tokens: usize = 50; loop {`
NV_poll_enter ==
    /\ pc = "call"
    /\ NV_steps[pos] = "diskutil_info_nix"
    /\ pc' = "poll"
    /\ retry_tokens' = RetryTokens
    /\ log' = Append(log, Ev(runs, op, "start", "diskutil_info_nix"))
    /\ UNCHANGED <<leafVars, instVars, baseVars, encrypt, slots, children, tasks, running, errors, op,
                   pos, polls, ret, runs>>

\* Faulty variant: a successful status does not end the loop.
poll_breaks_IgnoresSuccess(status, tokens) == tokens = 0
\* `if status.success() || retry_tokens == 0 { break; }`
poll_breaks(status, tokens) == status = "success" \/ tokens = 0

\* Faulty variant: no token is spent.
saturating_sub_Keeps(n, k) == n
saturating_sub(n, k) == IF n >= k THEN n - k ELSE 0

\* One iteration of the loop: `diskutil info /nix` cannot be run (the
\* handler returns the error), or it exits with a status; the loop then
\* breaks, or spends a token and sleeps 100 ms before the next iteration.
NV_poll ==
    /\ pc = "poll"
    /\ \E status \in {"spawn_err", "success", "failure"} :
        /\ IF status = "spawn_err"
           THEN Return(<<Ev(runs, op, "err", "diskutil_info_nix")>>, "err")
           ELSE IF poll_breaks(status, retry_tokens)
           THEN NV_continue(<<Ev(runs, op,
                                 IF status = "success" THEN "ok" ELSE "gave_up",
                                 "diskutil_info_nix")>>)
           ELSE /\ retry_tokens' = saturating_sub(retry_tokens, 1)
                /\ UNCHANGED <<pc, pos, ret, log>>
        /\ polls' =
            IF pc' = "idle" THEN NoPolls
            ELSE [attempts |-> polls.attempts + 1,
                  sleeps |-> IF poll_breaks(status, retry_tokens)
                             THEN polls.sleeps ELSE polls.sleeps + 1,
                  success |-> polls.success \/ status = "success",
                  late |-> IF polls.success THEN polls.late + 1 ELSE polls.late]
    /\ UNCHANGED <<leafVars, instVars, baseVars, encrypt, slots, children, tasks, running, errors, op, runs>>

NoLeaf ==
    /\ action = "none"
    /\ action_state = Uncompleted
    /\ history = <<>>

VolumeInit ==
    /\ NoLeaf
    /\ InstIdle
    /\ BaseIdle
    /\ host = "MacOS"
    /\ encrypt \in BOOLEAN
    /\ slots = <<>>
    /\ children = [c \in NV_children(encrypt) |-> Uncompleted]
    /\ tasks = <<>>
    /\ running = {}
    /\ errors = 0
    /\ pc = "idle"
    /\ op = "none"
    /\ pos = 0
    /\ retry_tokens = 0
    /\ polls = NoPolls
    /\ ret = "none"
    /\ runs = 0
    /\ log = <<>>

VolumeNext ==
    \/ CreateNixVolume_execute
    \/ CreateNixVolume_revert
    \/ NV_child_call
    \/ NV_child_return
    \/ NV_poll_enter
    \/ NV_poll

SpecVolume == VolumeInit /\ [][VolumeNext]_vars

\* The loop is code being run: an iteration that can be made is made.
SpecVolumeLive == SpecVolume /\ WF_vars(NV_poll)

\* =========================================================================
\* CreateUsersAndGroups: one CreateGroup child, then the CreateUser children,
\* serially on macOS and as spawned tasks elsewhere
\* =========================================================================
\* create_users: format!("{prefix}{count}") for count in 0..nix_build_user_count
create_users == [i \in 1..NumUsers |-> "nixbld" \o ToString(i - 1)]

create_group == "create_group"

\* A spawned task: the idx and the clone its future captured, and how far
\* it is.
Task(ph, st, ix, c) == [phase |-> ph, state |-> st, idx |-> ix, child |-> c]

\* Faulty variant: the index is paired with the next element.
enumerate_Shifted(i) == (i % NumUsers) + 1

\* create_users.iter().enumerate(): the index paired with element i.
enumerate(i) == i

\* Faulty variant: the JoinSet path is taken on every host.
UG_serial_Never(os, o) == FALSE

\* `match OperatingSystem::host()`: execute walks create_users with a for
\* loop on macOS; revert has no such match.
UG_serial(os, o) == o = "execute" /\ os = "MacOS"

CreateUsersAndGroups_execute ==
    /\ Begin("execute", <<>>)
    /\ pc' = "group"
    /\ UNCHANGED <<leafVars, instVars, baseVars, encrypt, slots, children, tasks, running, pos,
                   retry_tokens, polls>>

\* set.spawn(..) for every child, on a clone of the child.
UG_spawn_all ==
    /\ tasks' = [i \in 1..NumUsers |->
                    Task("spawned", children[create_users[i]], enumerate(i), slots[i])]
    /\ pc' = "join"

CreateUsersAndGroups_revert ==
    /\ Begin("revert", <<>>)
    /\ UG_spawn_all
    /\ UNCHANGED <<leafVars, instVars, baseVars, encrypt, slots, children, running, pos, retry_tokens, polls>>

\* The handler returns: the JoinSet is dropped with it.
UG_return(es, res) ==
    /\ Return(es, res)
    /\ tasks' = <<>>

\* create_group.try_execute() / create_group.try_revert() is called.
UG_group_call ==
    /\ pc = "group"
    /\ children' = [children EXCEPT ![create_group] = try_begin(op, @)]
    /\ running' = running \cup {create_group}
    /\ log' = Append(log, Ev(runs, op, "start", create_group))
    /\ pc' = "group_await"
    /\ UNCHANGED <<leafVars, instVars, baseVars, encrypt, slots, tasks, errors, op, pos, retry_tokens,
                   polls, ret, runs>>

\* It returns: `?` ends the handler on an error; after it execute goes on to
\* the users and revert is done.
UG_group_return ==
    /\ pc = "group_await"
    /\ \E ok \in try_outcomes(children[create_group]) :
        /\ children' = [children EXCEPT ![create_group] = try_end(op, @, ok)]
        /\ running' = running \ {create_group}
        /\ IF ~ok THEN UG_return(<<Ev(runs, op, "err", create_group)>>, "err")
           ELSE IF op = "revert" \/ (UG_serial(host, op) /\ NumUsers = 0)
           THEN UG_return(<<Ev(runs, op, "ok", create_group)>>, "ok")
           ELSE /\ log' = Append(log, Ev(runs, op, "ok", create_group))
                /\ IF UG_serial(host, op)
                   THEN pc' = "call" /\ pos' = 1 /\ tasks' = tasks
                   ELSE UG_spawn_all /\ pos' = pos
                /\ UNCHANGED <<ret, retry_tokens>>
    /\ UNCHANGED <<leafVars, instVars, baseVars, encrypt, slots, errors, op, polls, runs>>

\* Faulty variant: revert deletes nothing on any host.
CreateUser_has_effect_RevertNoOp(o, os) == o = "execute"

\* base::CreateUser: execute creates the user on every host; revert runs
\* userdel, except on macOS where it only logs a warning.
CreateUser_has_effect(o, os) == ~(o = "revert" /\ os = "MacOS")

\* The events of a CreateUser call that returned res: the host was changed
\* when the handler ran to its end and is not a no-op.
CreateUser_events(o, os, st, res, c) ==
    (IF st = Progress /\ res = "ok" /\ CreateUser_has_effect(o, os)
     THEN <<Ev(runs, o, "effect", c)>> ELSE <<>>)
    \o <<Ev(runs, o, res, c)>>

\* for create_user in create_users.iter_mut(): create_user.try_execute()
UG_user_call ==
    /\ pc = "call"
    /\ LET c == create_users[pos] IN
        /\ children' = [children EXCEPT ![c] = try_begin(op, @)]
        /\ running' = running \cup {c}
        /\ log' = Append(log, Ev(runs, op, "start", c))
    /\ pc' = "await"
    /\ UNCHANGED <<leafVars, instVars, baseVars, encrypt, slots, tasks, errors, op, pos, retry_tokens,
                   polls, ret, runs>>

\* .await?: the loop goes on to the next user, or the error is returned.
UG_user_return ==
    /\ pc = "await"
    /\ LET c == create_users[pos] IN
       \E ok \in try_outcomes(children[c]) :
       LET es == CreateUser_events(op, host, children[c],
                                   IF ok THEN "ok" ELSE "err", c) IN
        /\ children' = [children EXCEPT ![c] = try_end(op, @, ok)]
        /\ running' = running \ {c}
        /\ IF ~ok THEN Return(es, "err")
           ELSE IF pos = NumUsers THEN Return(es, "ok")
           ELSE /\ log' = log \o es
                /\ pc' = "call"
                /\ pos' = pos + 1
                /\ UNCHANGED <<ret, retry_tokens>>
    /\ UNCHANGED <<leafVars, instVars, baseVars, encrypt, slots, tasks, errors, op, polls, runs>>

\* A spawned task starts: create_user_clone.try_execute() / try_revert().
UG_task_start ==
    /\ \E i \in DOMAIN tasks :
        /\ tasks[i].phase = "spawned"
        /\ tasks' = [tasks EXCEPT ![i].phase = "running",
                                ![i].state = try_begin(op, @)]
        /\ running' = running \cup {create_users[i]}
        /\ log' = Append(log, Ev(runs, op, "start", create_users[i]))
    /\ UNCHANGED <<leafVars, instVars, baseVars, encrypt, slots, children, errors, pc, op, pos,
                   retry_tokens, polls, ret, runs>>

\* What join_next() can yield for a task: Ok(Ok(..)), Ok(Err(e)), or
\* Err(JoinError) for a task that panicked while its handler ran.
UG_task_results(st) ==
    {IF ok THEN "ok" ELSE "err" : ok \in try_outcomes(st)}
    \cup (IF st = Progress THEN {"panic"} ELSE {})

\* The task's call returns: Ok((idx, clone)) or the error; the clone is
\* dropped with the error or the panic.
UG_task_finish ==
    /\ \E i \in DOMAIN tasks :
        /\ tasks[i].phase = "running"
        /\ \E res \in UG_task_results(tasks[i].state) :
            /\ tasks' = [tasks EXCEPT ![i].phase = res,
                                    ![i].state = try_end(op, @, res = "ok")]
            /\ log' = log \o CreateUser_events(op, host, tasks[i].state, res,
                                               create_users[i])
        /\ running' = running \ {create_users[i]}
    /\ UNCHANGED <<leafVars, instVars, baseVars, encrypt, slots, children, errors, pc, op, pos,
                   retry_tokens, polls, ret, runs>>

\* The tasks still in the JoinSet that have not finished: dropping the
\* JoinSet aborts them.
UG_aborted ==
    LET unfinished == SelectSeq([j \in 1..Len(tasks) |-> j],
                         LAMBDA j : tasks[j].phase \in {"spawned", "running"})
    IN [k \in 1..Len(unfinished) |-> Ev(runs, op, "abort", create_users[unfinished[k]])]

\* set.join_next() yields a finished task: its clone replaces
\* create_users[idx], or its error is pushed, or its JoinError is returned
\* at once.
UG_join_next ==
    /\ pc = "join"
    /\ \E i \in DOMAIN tasks :
        /\ tasks[i].phase \in {"ok", "err", "panic"}
        /\ IF tasks[i].phase = "panic"
           THEN /\ UG_return(UG_aborted, "join")
                /\ running' = {}
                /\ UNCHANGED <<slots, children, errors>>
           ELSE /\ IF tasks[i].phase = "ok"
                   THEN /\ slots' = [slots EXCEPT ![tasks[i].idx] = tasks[i].child]
                        /\ children' = [children EXCEPT
                               ![create_users[tasks[i].idx]] = tasks[i].state]
                        /\ errors' = errors
                   ELSE /\ errors' = errors + 1
                        /\ UNCHANGED <<slots, children>>
                /\ tasks' = [tasks EXCEPT ![i].phase = "joined"]
                /\ UNCHANGED <<running, pc, pos, retry_tokens, ret, log>>
    /\ UNCHANGED <<leafVars, instVars, baseVars, encrypt, op, polls, runs>>

\* Faulty variant: revert turns to the group whatever the users' errors.
UG_join_done_GroupAnyway ==
    /\ pc = "join"
    /\ \A i \in DOMAIN tasks : tasks[i].phase = "joined"
    /\ IF op = "execute"
       THEN UG_return(<<>>, IF errors = 0 THEN "ok" ELSE "err")
       ELSE /\ pc' = "group"
            /\ tasks' = <<>>
            /\ UNCHANGED <<ret, pos, retry_tokens, log>>
    /\ UNCHANGED <<leafVars, instVars, baseVars, encrypt, slots, children, running, errors, op, polls, runs>>

\* set.join_next() yields None: one error is returned as it is, several as
\* Children(errors); with none, execute is done and revert turns to the group.
UG_join_done ==
    /\ pc = "join"
    /\ \A i \in DOMAIN tasks : tasks[i].phase = "joined"
    /\ IF errors = 1 THEN UG_return(<<>>, "err")
       ELSE IF errors > 1 THEN UG_return(<<>>, "children")
       ELSE IF op = "execute" THEN UG_return(<<>>, "ok")
       ELSE /\ pc' = "group"
            /\ tasks' = <<>>
            /\ UNCHANGED <<ret, pos, retry_tokens, log>>
    /\ UNCHANGED <<leafVars, instVars, baseVars, encrypt, slots, children, running, errors, op, polls, runs>>

\* CreateUser::plan yields Completed for a user that exists already;
\* CreateGroup::plan yields Uncompleted.
UsersInit ==
    /\ NoLeaf
    /\ InstIdle
    /\ BaseIdle
    /\ host \in Hosts
    /\ encrypt = FALSE
    /\ slots = create_users
    /\ \E st \in [Range(create_users) -> {Uncompleted, Completed}] :
        children = [c \in Range(create_users) \cup {create_group} |->
                        IF c = create_group THEN Uncompleted ELSE st[c]]
    /\ tasks = <<>>
    /\ running = {}
    /\ errors = 0
    /\ pc = "idle"
    /\ op = "none"
    /\ pos = 0
    /\ retry_tokens = 0
    /\ polls = NoPolls
    /\ ret = "none"
    /\ runs = 0
    /\ log = <<>>

UsersNext ==
    \/ CreateUsersAndGroups_execute
    \/ CreateUsersAndGroups_revert
    \/ UG_group_call
    \/ UG_group_return
    \/ UG_user_call
    \/ UG_user_return
    \/ UG_task_start
    \/ UG_task_finish
    \/ UG_join_next
    \/ UG_join_done

SpecUsers == UsersInit /\ [][UsersNext]_vars

\* =========================================================================
\* The install subcommand: Install::execute over an InstallPlan
\* =========================================================================
\* Top-level actions of a plan.
NumActions == 2

\* typetag names of the planners and two values of their settings
\* (nix_build_user_count).
PlannerTags == {"linux-multi", "darwin-multi"}
PlannerSettings == {"16", "32"}

\* match (planner, plan): (Some, None), (None, Some), (None, None), (Some, Some)
Selections == {"planner", "plan_file", "default", "both"}

Receipts ==
    {[kind |-> "receipt", planner |-> t, settings |-> s, actions |-> a] :
        t \in PlannerTags, s \in PlannerSettings,
        a \in [1..NumActions -> ActionState]}

Iv(e, i) == [ev |-> e, i |-> i]

AllCompleted(r) == \A i \in DOMAIN r.actions : r.actions[i] = Completed

\* Faulty variant: the settings are compared before the planner's name.
CheckReceipt_SettingsFirst(r, c) ==
    IF r.settings # c.settings THEN "different planner settings"
    ELSE IF r.planner # c.tag THEN "different planner"
    ELSE IF AllCompleted(r) THEN "already completed"
    ELSE "resume"

\* The three checks made on an existing receipt, in the order of the code.
CheckReceipt(r, c) ==
    IF r.planner # c.tag THEN "different planner"
    ELSE IF r.settings # c.settings THEN "different planner settings"
    ELSE IF AllCompleted(r) THEN "already completed"
    ELSE "resume"

\* Faulty variant: a receipt that may be resumed is planned afresh.
Install_plan_source_Replans(sel, r, c) ==
    CASE sel = "both" -> "conflict"
      [] sel = "plan_file" -> "file"
      [] sel \in {"planner", "default"} /\ r.kind = "none" -> "plan"
      [] sel \in {"planner", "default"} /\ r.kind # "none"
            /\ CheckReceipt(r, c) = "resume" -> "plan"
      [] OTHER -> "refuse"

\* Where the plan to install comes from: the arms of match (planner, plan)
\* and, inside them, of match existing_receipt.
Install_plan_source(sel, r, c) ==
    CASE sel = "both" -> "conflict"
      [] sel = "plan_file" -> "file"
      [] sel \in {"planner", "default"} /\ r.kind = "none" -> "plan"
      [] sel \in {"planner", "default"} /\ r.kind # "none"
            /\ CheckReceipt(r, c) = "resume" -> "receipt"
      [] OTHER -> "refuse"

Exit(code) == ipc' = "done" /\ exit_code' = code

\* Reading the receipt and the match that builds install_plan.
Install_choose_plan ==
    /\ ipc = "start"
    /\ \/ \* the receipt does not parse, or from_common_settings fails
          /\ existing_receipt.kind = "corrupt" \/ selection = "default"
          /\ Exit("Err")
          /\ UNCHANGED <<install_plan, stderr, ilog>>
       \/ /\ existing_receipt.kind # "corrupt"
          /\ LET src == Install_plan_source(selection, existing_receipt, chosen) IN
             CASE src = "conflict" ->
                    /\ Exit("Err")
                    /\ UNCHANGED <<install_plan, stderr, ilog>>
               [] src = "refuse" ->
                    /\ Exit("FAILURE")
                    /\ stderr' = CheckReceipt(existing_receipt, chosen)
                    /\ UNCHANGED <<install_plan, ilog>>
               [] src = "receipt" ->
                    /\ install_plan' = [origin |-> "receipt",
                                        planner |-> existing_receipt.planner,
                                        settings |-> existing_receipt.settings,
                                        actions |-> existing_receipt.actions]
                    /\ ipc' = "confirm"
                    /\ UNCHANGED <<exit_code, stderr, ilog>>
               [] src = "plan" ->
                    /\ ilog' = Append(ilog, Iv("plan", 0))
                    /\ \E res \in {"ok", "expected", "err"} :
                        IF res = "ok"
                        THEN /\ \E a \in [1..NumActions -> {Uncompleted, Completed}] :
                                  install_plan' = [origin |-> "planned",
                                                   planner |-> chosen.tag,
                                                   settings |-> chosen.settings,
                                                   actions |-> a]
                             /\ ipc' = "confirm"
                             /\ UNCHANGED exit_code
                        ELSE /\ Exit(IF res = "expected" /\ selection = "default"
                                     THEN "FAILURE" ELSE "Err")
                             /\ UNCHANGED install_plan
                    /\ UNCHANGED stderr
               [] src = "file" ->
                    /\ \E parsed \in BOOLEAN :
                        IF parsed
                        THEN /\ \E t \in PlannerTags, st \in PlannerSettings,
                                    a \in [1..NumActions -> ActionState] :
                                  install_plan' = [origin |-> "file",
                                                   planner |-> t,
                                                   settings |-> st,
                                                   actions |-> a]
                             /\ ipc' = "confirm"
                             /\ UNCHANGED exit_code
                        ELSE /\ Exit("Err")
                             /\ UNCHANGED install_plan
                    /\ UNCHANGED <<stderr, ilog>>
    /\ UNCHANGED <<leafVars, compVars, baseVars, no_confirm, selection, chosen,
                   existing_receipt, idx, signal, revert_errors>>

\* if !no_confirm { interaction::confirm(describe_install) }
Install_confirm ==
    /\ ipc = "confirm"
    /\ IF no_confirm
       THEN /\ ipc' = "install"
            /\ idx' = 1
            /\ UNCHANGED <<exit_code, ilog>>
       ELSE /\ ilog' = Append(ilog, Iv("ask", 0))
            /\ \E yes \in BOOLEAN :
                IF yes
                THEN ipc' = "install" /\ idx' = 1 /\ UNCHANGED exit_code
                ELSE Exit("clean_exit") /\ UNCHANGED idx
    /\ UNCHANGED <<leafVars, compVars, baseVars, no_confirm, selection, chosen,
                   existing_receipt, install_plan, signal, stderr, revert_errors>>

\* ---- InstallPlan::install: the actions in declared order
PlanLen == Len(install_plan.actions)

\* Faulty variant: the signal is never looked at.
install_cancelled_Never(i, sig) == FALSE

\* Between two actions the executor looks at the cancellation signal.
install_cancelled(i, sig) == i > 1 /\ sig

\* The loop comes to action idx: it stops if cancelled; otherwise the
\* action's try_execute is called.
InstallPlan_install_call ==
    /\ ipc = "install"
    /\ IF install_cancelled(idx, signal)
       THEN /\ ipc' = "failed"
            /\ ilog' = Append(ilog, Iv("cancelled", idx))
            /\ UNCHANGED install_plan
       ELSE /\ install_plan' = [install_plan EXCEPT
                                   !.actions[idx] = try_begin("execute", @)]
            /\ ilog' = Append(ilog, Iv("execute_call", idx))
            /\ ipc' = "exec"
    /\ UNCHANGED <<leafVars, compVars, baseVars, no_confirm, selection, chosen,
                   existing_receipt, idx, signal, exit_code, stderr,
                   revert_errors>>

\* The action's try_execute returns: an error ends install with it; after
\* the last action install returns Ok and Install::execute reports success.
InstallPlan_install_return ==
    /\ ipc = "exec"
    /\ \E ok \in try_outcomes(install_plan.actions[idx]) :
        /\ install_plan' = [install_plan EXCEPT
                               !.actions[idx] = try_end("execute", @, ok)]
        /\ IF ~ok
           THEN /\ ilog' = Append(ilog, Iv("execute_err", idx))
                /\ ipc' = "failed"
                /\ UNCHANGED <<idx, exit_code>>
           ELSE IF idx = PlanLen
           THEN /\ ilog' = ilog \o <<Iv("execute_ok", idx), Iv("write_receipt", 0)>>
                /\ Exit("SUCCESS")
                /\ UNCHANGED idx
           ELSE /\ ilog' = Append(ilog, Iv("execute_ok", idx))
                /\ ipc' = "install"
                /\ idx' = idx + 1
                /\ UNCHANGED exit_code
    /\ UNCHANGED <<leafVars, compVars, baseVars, no_confirm, selection, chosen,
                   existing_receipt, signal, stderr, revert_errors>>

\* The cancellation signal is raised (SIGINT) while install runs.
Signal_raised ==
    /\ ipc \in {"install", "exec"}
    /\ ~signal
    /\ signal' = TRUE
    /\ ilog' = Append(ilog, Iv(IF ipc = "exec" THEN "signal_during"
                               ELSE "signal_between", idx))
    /\ UNCHANGED <<leafVars, compVars, baseVars, no_confirm, selection, chosen,
                   existing_receipt, install_plan, ipc, idx, exit_code, stderr,
                   revert_errors>>

\* match install_plan.install(rx1).await { Err(err) => .. }: with no_confirm
\* the error is reported and returned; otherwise the user is offered the
\* revert and, on yes, install_plan.uninstall(rx2) is run.
Install_on_failure ==
    /\ ipc = "failed"
    /\ IF no_confirm
       THEN /\ \E expected \in BOOLEAN :
                Exit(IF expected THEN "FAILURE" ELSE "Err")
            /\ UNCHANGED <<idx, ilog>>
       ELSE /\ ilog' = Append(ilog, Iv("ask", 0))
            /\ \E yes \in BOOLEAN :
                IF yes
                THEN ipc' = "uninstall" /\ idx' = PlanLen /\ UNCHANGED exit_code
                ELSE Exit("clean_exit") /\ UNCHANGED idx
    /\ UNCHANGED <<leafVars, compVars, baseVars, no_confirm, selection, chosen,
                   existing_receipt, install_plan, signal, stderr, revert_errors>>

\* ---- InstallPlan::uninstall: the actions from last to first
InstallPlan_uninstall_call ==
    /\ ipc = "uninstall"
    /\ install_plan' = [install_plan EXCEPT
                           !.actions[idx] = try_begin("revert", @)]
    /\ ilog' = ilog \o <<Iv("revert_call", idx)>>
                    \o (IF try_skips("revert", install_plan.actions[idx])
                        THEN <<>> ELSE <<Iv("revert_run", idx)>>)
    /\ ipc' = "revert"
    /\ UNCHANGED <<leafVars, compVars, baseVars, no_confirm, selection, chosen,
                   existing_receipt, idx, signal, exit_code, stderr,
                   revert_errors>>

\* The action's try_revert returns; its error is collected. After the first
\* action uninstall returns: Err makes Install::execute fail, Ok lets it
\* fall through to Ok(ExitCode::SUCCESS).
InstallPlan_uninstall_return ==
    /\ ipc = "revert"
    /\ \E ok \in try_outcomes(install_plan.actions[idx]) :
        LET n == revert_errors + (IF ok THEN 0 ELSE 1) IN
        /\ install_plan' = [install_plan EXCEPT
                               !.actions[idx] = try_end("revert", @, ok)]
        /\ revert_errors' = n
        /\ ilog' = Append(ilog, Iv(IF ok THEN "revert_ok" ELSE "revert_err", idx))
        /\ IF idx > 1
           THEN ipc' = "uninstall" /\ idx' = idx - 1 /\ UNCHANGED exit_code
           ELSE /\ UNCHANGED idx
                /\ IF n > 0
                   THEN \E expected \in BOOLEAN :
                            Exit(IF expected THEN "FAILURE" ELSE "Err")
                   ELSE Exit("SUCCESS")
    /\ UNCHANGED <<leafVars, compVars, baseVars, no_confirm, selection, chosen,
                   existing_receipt, signal, stderr>>

\* The process has been started as root with some command line, and some
\* file, or none, at RECEIPT_LOCATION.
InstallInit ==
    /\ NoLeaf
    /\ host = "Linux"
    /\ CompIdle
    /\ BaseIdle
    /\ no_confirm \in BOOLEAN
    /\ selection \in Selections
    /\ IF selection \in {"planner", "default", "both"}
       THEN chosen \in [tag : PlannerTags, settings : PlannerSettings]
       ELSE chosen = [tag |-> "", settings |-> ""]
    /\ existing_receipt \in
        {NoReceipt, [NoReceipt EXCEPT !.kind = "corrupt"]} \cup Receipts
    /\ install_plan = NoPlan
    /\ ipc = "start"
    /\ idx = 0
    /\ signal = FALSE
    /\ exit_code = "none"
    /\ stderr = ""
    /\ revert_errors = 0
    /\ ilog = <<>>

InstallNext ==
    \/ Install_choose_plan
    \/ Install_confirm
    \/ InstallPlan_install_call
    \/ InstallPlan_install_return
    \/ Signal_raised
    \/ Install_on_failure
    \/ InstallPlan_uninstall_call
    \/ InstallPlan_uninstall_return

SpecInstall == InstallInit /\ [][InstallNext]_vars

\* =========================================================================
\* CreateOrMergeNixConfig (action/base/create_or_merge_nix_config.rs)
\* =========================================================================
\* A value is modelled by the sequence of tokens its string holds between
\* single spaces: split(' ') takes the string to that sequence and join(" ")
\* takes the sequence back. A file is its mode and its sequence of lines.

\* Tokens in one value of experimental-features.
MaxTokens == 2

MERGEABLE_CONF_NAMES == {"experimental-features"}
NIX_CONF_MODE == 420
\* The mode the temporary file is opened with (0o600).
TempMode == 384

\* The path the action is planned for.
Path == "/etc/nix/nix.conf"

\* The setting names of the model, in the order settings are iterated.
ConfNames == <<"experimental-features", "allow-dirty", "warn-dirty">>
Features == {"flakes", "nix-command"}

ConfValues(name) ==
    IF name = "experimental-features"
    THEN UNION {[1..n -> Features] : n \in 1..MaxTokens}
    ELSE {<<"true">>, <<"false">>}

\* Every NixConfig over the model's names and values.
NixConfigs ==
    UNION {{c \in [D -> UNION {ConfValues(k) : k \in D}] :
                \A k \in D : c[k] \in ConfValues(k)} :
           D \in SUBSET Range(ConfNames)}

Setting(name, value) == [t |-> "setting", name |-> name, value |-> value]
Blank == [t |-> "blank", name |-> "", value |-> <<>>]
GeneratedBy == [t |-> "comment", name |-> "", value |-> <<>>]
\* A line that is no setting, comment or blank line ("More content").
Junk == [t |-> "junk", name |-> "", value |-> <<>>]

\* The lines `name = value`, one per setting of cfg named in names.
SettingLines(names, cfg) ==
    LET ks == SelectSeq(ConfNames, LAMBDA k : k \in names)
    IN  [i \in 1..Len(ks) |-> Setting(ks[i], cfg[ks[i]])]

File(mode, lines) == [kind |-> "file", mode |-> mode, lines |-> lines]
Dir == [kind |-> "dir", mode |-> 493, lines |-> <<>>]

\* The setting lines of a file, and the names they set.
SettingsOf(f) == {i \in DOMAIN f.lines : f.lines[i].t = "setting"}
NamesOf(f) == {f.lines[i].name : i \in SettingsOf(f)}

\* NixConfig::parse_file: an error on a malformed line, else every name
\* with the value its last line gives it.
parse_file(f) ==
    [ok |-> \A i \in DOMAIN f.lines : f.lines[i].t # "junk",
     settings |->
        [k \in NamesOf(f) |->
            LET last == CHOOSE i \in SettingsOf(f) :
                            /\ f.lines[i].name = k
                            /\ \A j \in SettingsOf(f) :
                                   f.lines[j].name = k => j <= i
            IN  f.lines[last].value]]

Contains(v, e) == \E i \in DOMAIN v : v[i] = e

\* Vec::dedup: removes consecutive repeated elements.
RECURSIVE dedup(_)
dedup(v) ==
    IF Len(v) <= 1 THEN v
    ELSE IF v[1] = v[2] THEN dedup(Tail(v))
    ELSE <<v[1]>> \o dedup(Tail(v))

\* What plan() does with one pending setting when the file exists.
Classify(k, pending, existing) ==
    IF k \notin DOMAIN existing THEN "insert"
    ELSE IF \A i \in DOMAIN pending[k] : Contains(existing[k], pending[k][i])
         THEN "present"
    ELSE IF k \in MERGEABLE_CONF_NAMES THEN "merge"
    ELSE "unmergeable"

merged_conf_value(pending_conf_value, existing_conf_value) ==
    dedup(pending_conf_value \o existing_conf_value)

\* Faulty variant: only the first unmergeable name is reported.
unmergeable_config_names_First(pending, existing) ==
    LET ns == SelectSeq(ConfNames, LAMBDA k :
                  k \in DOMAIN pending
                  /\ Classify(k, pending, existing) = "unmergeable")
    IN  IF ns = <<>> THEN ns ELSE <<ns[1]>>
unmergeable_config_names(pending, existing) ==
    SelectSeq(ConfNames, LAMBDA k :
        k \in DOMAIN pending /\ Classify(k, pending, existing) = "unmergeable")

merged_nix_config(pending, existing) ==
    [k \in {n \in DOMAIN pending :
                Classify(n, pending, existing) \in {"insert", "merge"}} |->
        IF Classify(k, pending, existing) = "insert"
        THEN pending[k]
        ELSE merged_conf_value(pending[k], existing[k])]

PlanErr(e, ns) ==
    [res |-> "Err", err |-> e, names |-> ns, path |-> Path,
     state |-> "none", configs |-> NoConfigs]
PlanOk(st, existing, merged) ==
    [res |-> "Ok", err |-> "", names |-> <<>>, path |-> Path, state |-> st,
     configs |-> [existing_nix_config |-> existing,
                  merged_nix_config |-> merged]]

\* Faulty variant: an existing file never yields a Completed action.
planned_state_NeverCompleted(merged) == Uncompleted
\* The state plan() gives the action when the file exists and merges.
planned_state(merged) ==
    IF DOMAIN merged # {} THEN Uncompleted ELSE Completed

\* CreateOrMergeNixConfig::plan as a function of what is at the path and
\* of the pending settings.
CreateOrMergeNixConfig_plan(f, pending) ==
    IF f.kind # "none"
    THEN IF f.kind # "file" THEN PlanErr("PathWasNotFile", <<>>)
         ELSE IF f.mode # NIX_CONF_MODE THEN PlanErr("PathModeMismatch", <<>>)
         ELSE IF ~parse_file(f).ok THEN PlanErr("ParseNixConfig", <<>>)
         ELSE LET existing == parse_file(f).settings
                  names == unmergeable_config_names(pending, existing)
                  merged == merged_nix_config(pending, existing)
              IN  IF names # <<>> THEN PlanErr("UnmergeableConfig", names)
                  ELSE PlanOk(planned_state(merged),
                              [some |-> TRUE, settings |-> existing], merged)
    ELSE PlanOk(Uncompleted, [some |-> FALSE, settings |-> <<>>], pending)

\* Faulty variant: the existing settings are all written back, the merged
\* ones after them.
new_config_KeepsOverridden(cfgs) ==
    LET existing == cfgs.existing_nix_config
        merged == cfgs.merged_nix_config
    IN  (IF existing.some
         THEN Append(SettingLines(DOMAIN existing.settings, existing.settings),
                     Blank)
         ELSE <<>>)
        \o <<GeneratedBy>>
        \o SettingLines(DOMAIN merged, merged)
\* The text execute() writes: the existing settings that are not merged,
\* a blank line, the generator comment, the merged settings.
new_config(cfgs) ==
    LET existing == cfgs.existing_nix_config
        merged == cfgs.merged_nix_config
    IN  (IF existing.some
         THEN Append(SettingLines(DOMAIN existing.settings \ DOMAIN merged,
                                  existing.settings),
                     Blank)
         ELSE <<>>)
        \o <<GeneratedBy>>
        \o SettingLines(DOMAIN merged, merged)

\* What a call returned: pre is the action's state when it was made.
ConfResult(o, pre, r, e) ==
    [op |-> o, pre |-> pre, res |-> r, err |-> e, names |-> <<>>, path |-> Path]

\* plan() is called for the path and the pending settings.
CreateOrMergeNixConfig_plan_call ==
    /\ conf_pc = "start"
    /\ LET r == CreateOrMergeNixConfig_plan(path_file, pending_nix_config)
       IN  /\ conf_result' = [op |-> "plan", pre |-> "none", res |-> r.res,
                              err |-> r.err, names |-> r.names,
                              path |-> r.path]
           /\ conf_state' = r.state
           /\ nix_configs' = r.configs
           /\ conf_pc' = IF r.res = "Ok" THEN "idle" ELSE "refused"
    /\ conf_seen' = [conf_seen EXCEPT !.plan = path_file]
    /\ UNCHANGED <<leafVars, compVars, instVars, planVars, moreVars,
                   path_file, temp_file, pending_nix_config>>

\* try_execute: skipped on a Completed action, else execute() begins.
CreateOrMergeNixConfig_try_execute ==
    /\ conf_pc = "idle"
    /\ conf_state' = try_begin("execute", conf_state)
    /\ IF try_skips("execute", conf_state)
       THEN /\ conf_result' = ConfResult("execute", conf_state, "Ok", "skipped")
            /\ UNCHANGED <<conf_pc, conf_seen>>
       ELSE /\ conf_pc' = "open"
            /\ conf_seen' = [conf_seen EXCEPT !.execute = path_file,
                                              !.edited = FALSE]
            /\ conf_result' = ConfResult("execute", conf_state, "none", "")
    /\ UNCHANGED <<leafVars, compVars, instVars, planVars, moreVars,
                   path_file, temp_file, pending_nix_config, nix_configs>>

\* execute() returns the error e: the action stays in Progress.
Conf_execute_fails(e) ==
    /\ conf_result' = ConfResult("execute", conf_result.pre, "Err", e)
    /\ conf_state' = try_end("execute", conf_state, FALSE)
    /\ conf_pc' = "idle"

\* The temporary file is created with mode 0o600.
CreateOrMergeNixConfig_execute_open ==
    /\ conf_pc = "open"
    /\ \E ok \in BOOLEAN :
        IF ok
        THEN /\ temp_file' = File(TempMode, <<>>)
             /\ conf_pc' = "write"
             /\ UNCHANGED <<conf_result, conf_state>>
        ELSE /\ Conf_execute_fails("Open")
             /\ UNCHANGED temp_file
    /\ UNCHANGED <<leafVars, compVars, instVars, planVars, moreVars, path_file,
                   pending_nix_config, nix_configs, conf_seen>>

\* new_config is written to the temporary file.
CreateOrMergeNixConfig_execute_write ==
    /\ conf_pc = "write"
    /\ \E ok \in BOOLEAN :
        IF ok
        THEN /\ temp_file' = [temp_file EXCEPT !.lines = new_config(nix_configs)]
             /\ conf_pc' = "set_permissions"
             /\ UNCHANGED <<conf_result, conf_state>>
        ELSE /\ Conf_execute_fails("Write")
             /\ UNCHANGED temp_file
    /\ UNCHANGED <<leafVars, compVars, instVars, planVars, moreVars, path_file,
                   pending_nix_config, nix_configs, conf_seen>>

\* The temporary file gets NIX_CONF_MODE.
CreateOrMergeNixConfig_execute_set_permissions ==
    /\ conf_pc = "set_permissions"
    /\ \E ok \in BOOLEAN :
        IF ok
        THEN /\ temp_file' = [temp_file EXCEPT !.mode = NIX_CONF_MODE]
             /\ conf_pc' = "rename"
             /\ UNCHANGED <<conf_result, conf_state>>
        ELSE /\ Conf_execute_fails("SetPermissions")
             /\ UNCHANGED temp_file
    /\ UNCHANGED <<leafVars, compVars, instVars, planVars, moreVars, path_file,
                   pending_nix_config, nix_configs, conf_seen>>

\* The temporary file is renamed over the path and execute() returns Ok.
CreateOrMergeNixConfig_execute_rename ==
    /\ conf_pc = "rename"
    /\ \E ok \in BOOLEAN :
        IF ok
        THEN /\ path_file' = temp_file
             /\ temp_file' = NoFile
             /\ conf_result' = ConfResult("execute", conf_result.pre, "Ok", "")
             /\ conf_state' = try_end("execute", conf_state, TRUE)
             /\ conf_pc' = "idle"
        ELSE /\ Conf_execute_fails("Rename")
             /\ UNCHANGED <<path_file, temp_file>>
    /\ UNCHANGED <<leafVars, compVars, instVars, planVars, moreVars,
                   pending_nix_config, nix_configs, conf_seen>>

\* Faulty variant: the file is left in place.
remove_file_Keeps(f) == [ok |-> f.kind = "file", file |-> f]
\* tokio::fs::remove_file: fails unless a file is at the path.
remove_file(f) ==
    [ok |-> f.kind = "file", file |-> IF f.kind = "file" THEN NoFile ELSE f]

\* try_revert: skipped on an Uncompleted action, else revert() removes the
\* file at the path; the removal may fail for a reason of its own.
CreateOrMergeNixConfig_try_revert ==
    /\ conf_pc = "idle"
    /\ IF try_skips("revert", conf_state)
       THEN /\ conf_result' = ConfResult("revert", conf_state, "Ok", "skipped")
            /\ UNCHANGED <<conf_state, path_file>>
       ELSE \E io \in BOOLEAN :
                LET r == remove_file(path_file)
                    ok == io /\ r.ok
                IN  /\ path_file' = IF ok THEN r.file ELSE path_file
                    /\ conf_result' =
                        ConfResult("revert", conf_state,
                                   IF ok THEN "Ok" ELSE "Err",
                                   IF ok THEN "" ELSE "Remove")
                    /\ conf_state' =
                        try_end("revert", try_begin("revert", conf_state), ok)
    /\ UNCHANGED <<leafVars, compVars, instVars, planVars, moreVars, temp_file,
                   pending_nix_config, nix_configs, conf_pc, conf_seen>>

\* Someone else rewrites or removes the file of a Completed action.
File_edited ==
    /\ conf_pc = "idle"
    /\ conf_state = Completed
    /\ ~conf_seen.edited
    /\ path_file' \in {File(NIX_CONF_MODE, <<Junk>>), NoFile} \ {path_file}
    /\ conf_seen' = [conf_seen EXCEPT !.edited = TRUE]
    /\ UNCHANGED <<leafVars, compVars, instVars, planVars, moreVars, temp_file,
                   pending_nix_config, nix_configs, conf_state, conf_pc,
                   conf_result>>

\* What can be at the path before planning.
Files ==
    {NoFile, Dir} \cup
    {File(m, l) : m \in {NIX_CONF_MODE, TempMode},
                  l \in {<<Junk>>} \cup
                        {SettingLines(DOMAIN c, c) : c \in NixConfigs}}

NixConfigInit ==
    /\ NoLeaf
    /\ host = "Linux"
    /\ CompIdle
    /\ InstIdle
    /\ PlanIdle
    /\ MoreIdle
    /\ path_file \in Files
    /\ temp_file = NoFile
    /\ pending_nix_config \in NixConfigs
    /\ nix_configs = NoConfigs
    /\ conf_state = "none"
    /\ conf_pc = "start"
    /\ conf_result = NoResult
    /\ conf_seen = [plan |-> NoFile, execute |-> NoFile, edited |-> FALSE]

NixConfigNext ==
    \/ CreateOrMergeNixConfig_plan_call
    \/ CreateOrMergeNixConfig_try_execute
    \/ CreateOrMergeNixConfig_execute_open
    \/ CreateOrMergeNixConfig_execute_write
    \/ CreateOrMergeNixConfig_execute_set_permissions
    \/ CreateOrMergeNixConfig_execute_rename
    \/ CreateOrMergeNixConfig_try_revert
    \/ File_edited

SpecNixConfig == NixConfigInit /\ [][NixConfigNext]_vars

\* =========================================================================
\* Planning users and groups (action/base/create_user.rs, create_group.rs,
\* action/common/create_users_and_groups.rs)
\* =========================================================================
Gids == {3000, 3001}
UidBase == 3000

\* CommonSettings as far as CreateUsersAndGroups::plan reads it.
PlanSettings ==
    [nix_build_user_count : {NumUsers},
     nix_build_group_id : Gids,
     nix_build_user_id_base : {UidBase}]

\* A user or a group of the host, as a lookup by name finds it.
Entry(uid, gid) == [exists |-> TRUE, uid |-> uid, gid |-> gid]

\* What the host may hold for the user that is planned with uid.
HostUsers(uid) == {NoEntry} \cup {Entry(u, g) : u \in {uid, uid + 1}, g \in Gids}
HostGroups == {NoEntry} \cup {Entry(0, g) : g \in Gids}

Planned(res, err, st) == [res |-> res, err |-> err, state |-> st]

\* CreateGroup::plan: the host is not looked at.
CreateGroup_plan(entry, gid) == Planned("Ok", "", Uncompleted)

\* Faulty variant: the found user's gid is not compared.
CreateUser_plan_GidUnchecked(found, entry, uid, gid) ==
    IF ~found THEN Planned("Err", "GettingUserId", "none")
    ELSE IF entry.exists
    THEN IF entry.uid # uid THEN Planned("Err", "UserUidMismatch", "none")
         ELSE Planned("Ok", "", Completed)
    ELSE Planned("Ok", "", Uncompleted)
\* CreateUser::plan: found is whether User::from_name returned Ok, entry
\* what it found.
CreateUser_plan(found, entry, uid, gid) ==
    IF ~found THEN Planned("Err", "GettingUserId", "none")
    ELSE IF entry.exists
    THEN IF entry.uid # uid THEN Planned("Err", "UserUidMismatch", "none")
         ELSE IF entry.gid # gid THEN Planned("Err", "UserGidMismatch", "none")
         ELSE Planned("Ok", "", Completed)
    ELSE Planned("Ok", "", Uncompleted)

\* The uid planned for the user at index i of create_users.
PlannedUid(i) == settings.nix_build_user_id_base + (i - 1)

\* CreateUsersAndGroups::plan plans the group.
CreateUsersAndGroups_plan_group ==
    /\ plan_pc = "group"
    /\ LET r == CreateGroup_plan(host_group, settings.nix_build_group_id)
       IN  /\ planned' = [planned EXCEPT !.create_group = r.state]
           /\ IF r.res = "Ok"
              THEN plan_pc' = "users" /\ UNCHANGED plan_result
              ELSE plan_pc' = "done" /\ plan_result' = r
    /\ UNCHANGED <<leafVars, compVars, instVars, confVars, moreVars,
                   host_users, host_group, settings, host_before>>

\* It plans the next user; the first error ends the planning.
CreateUsersAndGroups_plan_user ==
    /\ plan_pc = "users"
    /\ Len(planned.create_users) < settings.nix_build_user_count
    /\ \E found \in BOOLEAN :
        LET i == Len(planned.create_users) + 1
            r == CreateUser_plan(found, host_users[i], PlannedUid(i),
                                 settings.nix_build_group_id)
        IN  /\ planned' = [planned EXCEPT !.create_users =
                               Append(@, [lookup |-> found, res |-> r.res,
                                          err |-> r.err, state |-> r.state])]
            /\ IF r.res = "Ok"
               THEN UNCHANGED <<plan_pc, plan_result>>
               ELSE plan_pc' = "done" /\ plan_result' = r
    /\ UNCHANGED <<leafVars, compVars, instVars, confVars, moreVars,
                   host_users, host_group, settings, host_before>>

\* Every user is planned: the composite is returned.
CreateUsersAndGroups_plan_return ==
    /\ plan_pc = "users"
    /\ Len(planned.create_users) = settings.nix_build_user_count
    /\ plan_pc' = "done"
    /\ plan_result' = Planned("Ok", "", Uncompleted)
    /\ UNCHANGED <<leafVars, compVars, instVars, confVars, moreVars,
                   host_users, host_group, settings, planned, host_before>>

PlanInit ==
    /\ NoLeaf
    /\ host = "Linux"
    /\ CompIdle
    /\ InstIdle
    /\ ConfIdle
    /\ MoreIdle
    /\ settings \in PlanSettings
    /\ host_users \in {us \in [1..NumUsers -> UNION {HostUsers(UidBase + i) : i \in 0..(NumUsers - 1)}] :
                          \A i \in 1..NumUsers : us[i] \in HostUsers(UidBase + i - 1)}
    /\ host_group \in HostGroups
    /\ host_before = [users |-> host_users, group |-> host_group]
    /\ planned = NoPlanned
    /\ plan_pc = "group"
    /\ plan_result = Planned("none", "", "none")

PlanNext ==
    \/ CreateUsersAndGroups_plan_group
    \/ CreateUsersAndGroups_plan_user
    \/ CreateUsersAndGroups_plan_return

SpecPlan == PlanInit /\ [][PlanNext]_vars

\* =========================================================================
\* Properties of the leaf actions (checked under Spec)
\* =========================================================================
Calls == 1..Len(history)

Failed(c) == \E j \in 1..Len(c.cmds) : c.cmds[j].out = "fail"

\* C1: execute called on a Completed action returns success, issues no OS
\* command and leaves the state Completed (so a second execute changes
\* nothing).
C1_ExecuteOnCompletedIsNoOp ==
    \A i \in Calls :
        (history[i].op = "execute" /\ history[i].pre = Completed)
        => /\ history[i].res = "ok"
           /\ history[i].cmds = <<>>
           /\ history[i].post = Completed

\* Two executes in succession, the first one doing the forward effect.
C1_Witness ==
    \E i \in Calls :
        /\ i > 1
        /\ history[i - 1].op = "execute"
        /\ history[i - 1].pre = Uncompleted
        /\ history[i - 1].cmds # <<>>
        /\ history[i - 1].res = "ok"
        /\ history[i].op = "execute"
        /\ history[i].pre = Completed

\* C2: after a successful revert of a Completed action, a second revert
\* issues no OS command and ends in the state the first one ended in.
C2_SecondRevertIsNoOp ==
    \A i \in Calls :
        (/\ i > 1
         /\ history[i - 1].op = "revert"
         /\ history[i - 1].pre = Completed
         /\ history[i - 1].res = "ok"
         /\ history[i].op = "revert")
        => /\ history[i].cmds = <<>>
           /\ history[i].post = history[i - 1].post

\* C3: a revert that starts from Completed and succeeds leaves the action
\* Uncompleted.
C3_RevertReachesUncompleted ==
    \A i \in Calls :
        (history[i].op = "revert" /\ history[i].pre = Completed
         /\ history[i].res = "ok")
        => history[i].post = Uncompleted

\* C4: an execute that starts from Uncompleted and succeeds leaves the
\* action Completed, and an execute moves the state to Completed only when
\* it returned success with none of the commands it issued having failed.
C4_ExecuteCompletesAfterAllCommands ==
    \A i \in Calls :
        history[i].op = "execute" =>
            /\ (history[i].pre = Uncompleted /\ history[i].res = "ok")
                => history[i].post = Completed
            /\ (history[i].pre # Completed /\ history[i].post = Completed)
                => (history[i].res = "ok" /\ ~Failed(history[i])
                    /\ history[i].cmds # <<>>)

\* An execute that ran a forward effect of several commands and succeeded.
C4_Witness ==
    \E i \in Calls :
        /\ history[i].op = "execute"
        /\ history[i].pre = Uncompleted
        /\ history[i].res = "ok"
        /\ Len(history[i].cmds) > 1
        /\ action_state = Completed

\* C5: an execute that fails leaves the action in Progress.
C5_FailedExecuteLeavesProgress ==
    \A i \in Calls :
        (history[i].op = "execute" /\ history[i].res = "err")
        => history[i].post = Progress

\* C6: revert called on an Uncompleted action returns success, issues no OS
\* command and leaves the state Uncompleted.
C6_RevertOnUncompletedIsNoOp ==
    \A i \in Calls :
        (history[i].op = "revert" /\ history[i].pre = Uncompleted)
        => /\ history[i].res = "ok"
           /\ history[i].cmds = <<>>
           /\ history[i].post = Uncompleted

\* A revert on an action that an earlier revert has already undone.
C6_Witness ==
    \E i \in Calls :
        /\ i > 2
        /\ history[i - 2].op = "execute" /\ history[i - 2].post = Completed
        /\ history[i - 1].op = "revert" /\ history[i - 1].cmds # <<>>
        /\ history[i - 1].post = Uncompleted
        /\ history[i].op = "revert"
        /\ history[i].pre = Uncompleted

\* =========================================================================
\* Properties of CreateNixVolume (checked under SpecVolume)
\* =========================================================================
Events == 1..Len(log)

\* The indices of the calls of child c made by run k.
Starts(k, c) ==
    {i \in Events : log[i].run = k /\ log[i].ev = "start" /\ log[i].c = c}

\* The run k made by handler o has returned res.
Returned(k, o, res) ==
    \E i \in Events : log[i] = Ev(k, o, "return_" \o res, "self")

\* How many calls run log[i].run has made up to and including event i.
CallNo(i) ==
    Cardinality({j \in 1..i : log[j].run = log[i].run /\ log[j].ev = "start"})

\* The latest event.
Last == log[Len(log)]

\* The pairs (a executed before b) whose reverts the handler keeps in the
\* order of execution.
C7_KeptPairs ==
    {<<"unmount_volume", "create_volume">>,
     <<"create_or_append_synthetic_conf", "create_synthetic_objects">>}

\* Revert has just called a child: Last.c.
C7_RevertCall == Len(log) > 0 /\ Last.ev = "start" /\ Last.op = "revert"

\* The children that the revert run in progress has called before Last.c.
C7_RevertedBefore == {a \in DOMAIN children \ {Last.c} : Starts(Last.run, a) # {}}

\* The earlier runs that were executes.
C7_Executes ==
    {ke \in 1..(Last.run - 1) : Ev(ke, "execute", "begin", "self") \in Range(log)}

\* C7 (as claimed): revert calls the children in the strict reverse of the
\* order execute called them: whenever revert calls a child, every child it
\* has called before in that run was executed after it (a executed before b
\* means b reverted before a).
C7_StrictReverse ==
    C7_RevertCall =>
        \A a \in C7_RevertedBefore : \A ke \in C7_Executes :
            \A ia \in Starts(ke, a), ic \in Starts(ke, Last.c) : ic < ia

\* C7 (amended): revert calls the children in the reverse of the order of
\* execute, except that unmount_volume is reverted before create_volume and
\* create_or_append_synthetic_conf before create_synthetic_objects.
C7_ReverseButKeptPairs ==
    C7_RevertCall =>
        \A a \in C7_RevertedBefore : \A ke \in C7_Executes :
            \A ia \in Starts(ke, a), ic \in Starts(ke, Last.c) :
                IF <<a, Last.c>> \in C7_KeptPairs THEN ia < ic ELSE ic < ia

\* A complete execute followed by a complete revert, with encryption planned.
C7_Witness ==
    /\ encrypt
    /\ \E ke, kr \in 1..runs :
        /\ ke < kr
        /\ Returned(ke, "execute", "ok")
        /\ Returned(kr, "revert", "ok")
        /\ \A c \in DOMAIN children : Starts(ke, c) # {} /\ Starts(kr, c) # {}

\* The order of the children that CreateNixVolume declares: synthetic.conf
\* insertion, CreateSyntheticObjects, UnmountApfsVolume, CreateApfsVolume,
\* CreateFstabEntry, EncryptApfsVolume (when planned), the launchd plist
\* CreateFile, BootstrapLaunchctlService, KickstartLaunchctlService, the
\* `diskutil info /nix` poll, EnableOwnership.
C8_DeclaredOrder ==
    <<"create_or_append_synthetic_conf", "create_synthetic_objects",
      "unmount_volume", "create_volume", "create_fstab_entry">>
    \o (IF encrypt THEN <<"encrypt_volume">> ELSE <<>>)
    \o <<"setup_volume_daemon", "bootstrap_volume",
         "kickstart_launchctl_service", "diskutil_info_nix", "enable_ownership">>

\* C8: execute runs the children one at a time in the declared order:
\* whenever execute calls a child, that call is the n-th of the run and the
\* child is the n-th declared one, the call comes right after the previous
\* child's call has returned, and no two calls are ever in flight together.
C8_ExecuteInDeclaredOrder ==
    /\ Cardinality(running) <= 1
    /\ (Len(log) > 0 /\ Last.ev = "start" /\ Last.op = "execute") =>
        LET i == Len(log)
            n == CallNo(i)
        IN  /\ n <= Len(C8_DeclaredOrder)
            /\ Last.c = C8_DeclaredOrder[n]
            /\ running \subseteq {Last.c}
            /\ i > 1
            /\ log[i - 1].run = Last.run
            /\ IF n = 1
               THEN log[i - 1].ev = "begin"
               ELSE /\ log[i - 1].ev \in {"ok", "err", "gave_up"}
                    /\ log[i - 1].c = C8_DeclaredOrder[n - 1]

\* An execute that went through every child, encryption included.
C8_Witness ==
    /\ encrypt
    /\ \E k \in 1..runs :
        /\ Returned(k, "execute", "ok")
        /\ \A n \in 1..Len(C8_DeclaredOrder) : Starts(k, C8_DeclaredOrder[n]) # {}

\* C9: in execute, a failure of unmount_volume is ignored (create_volume is
\* the next call, and an execute that returns Ok has called every child),
\* while a failure of any other step makes execute return the error at once
\* with no later child called.
C9_OnlyUnmountFailureIgnored ==
    /\ \A i \in Events :
        (log[i].ev = "err" /\ log[i].op = "execute") =>
            IF log[i].c = "unmount_volume"
            THEN IF i = Len(log)
                 THEN pc = "call" /\ NV_steps[pos] = "create_volume" /\ ret = "none"
                 ELSE log[i + 1] = Ev(log[i].run, "execute", "start", "create_volume")
            ELSE /\ i < Len(log)
                 /\ log[i + 1] = Ev(log[i].run, "execute", "return_err", "self")
                 /\ \A j \in Events : j > i + 1 => log[j].run # log[i].run
    /\ (Len(log) > 0 /\ Last.ev = "return_ok" /\ Last.op = "execute") =>
        \A n \in 1..Len(C8_DeclaredOrder) :
            Starts(Last.run, C8_DeclaredOrder[n]) # {}

\* unmount_volume failed and the same execute went on to return Ok.
C9_Witness ==
    \E i \in Events :
        /\ log[i] = Ev(log[i].run, "execute", "err", "unmount_volume")
        /\ Returned(log[i].run, "execute", "ok")
        /\ children["create_volume"] = Completed
        /\ children["enable_ownership"] = Completed

\* =========================================================================
\* Properties of CreateUsersAndGroups (checked under SpecUsers)
\* =========================================================================
UserNo(c) == CHOOSE i \in 1..NumUsers : create_users[i] = c

\* C10: during execute on macOS no two CreateUser children are in flight
\* together: a user is called right after the create_group call (the first)
\* or the previous user's call (the others) has returned Ok, and a user's
\* failure makes execute return with no further user called.
C10_MacSerialUsers ==
    (host = "MacOS") =>
        /\ op = "execute" => Cardinality(running \cap Range(create_users)) <= 1
        /\ (Len(log) > 1 /\ Last.ev = "start" /\ Last.op = "execute"
            /\ Last.c \in Range(create_users)) =>
              /\ running = {Last.c}
              /\ log[Len(log) - 1] =
                    Ev(Last.run, "execute", "ok",
                       IF UserNo(Last.c) = 1 THEN create_group
                       ELSE create_users[UserNo(Last.c) - 1])
        /\ \A i \in Events :
            (log[i].ev = "err" /\ log[i].op = "execute") =>
                /\ i < Len(log)
                /\ log[i + 1] = Ev(log[i].run, "execute", "return_err", "self")
                /\ \A j \in Events : j > i + 1 => log[j].run # log[i].run

\* On macOS an execute created every user, one after the other.
C10_Witness ==
    /\ host = "MacOS"
    /\ NumUsers > 1
    /\ Len(log) > 0
    /\ Last = Ev(Last.run, "execute", "return_ok", "self")
    /\ \A c \in Range(create_users) :
        Ev(Last.run, "execute", "start", c) \in Range(log) /\ children[c] = Completed

InLog(o, e, c) == Ev(runs, o, e, c) \in Range(log)

\* C11: in CreateUsersAndGroups, on every host, a CreateUser child is started
\* by execute only after create_group's execute has returned Ok (so after a
\* group failure no user is started), and revert starts create_group's revert
\* only once every CreateUser child's revert has returned Ok and been joined.
C11_GroupBeforeUsersAndAfterOnRevert ==
    /\ op = "execute" =>
        /\ \A c \in Range(create_users) :
            InLog("execute", "start", c) => InLog("execute", "ok", create_group)
        /\ InLog("execute", "err", create_group) =>
            \A c \in Range(create_users) : ~InLog("execute", "start", c)
    /\ (op = "revert" /\ InLog("revert", "start", create_group)) =>
        /\ errors = 0
        /\ tasks = <<>>
        /\ \A c \in Range(create_users) :
            /\ InLog("revert", "ok", c)
            /\ c \notin running
            /\ children[c] = Uncompleted

\* On Linux a revert deleted every user and then turned to the group.
C11_Witness ==
    /\ host = "Linux"
    /\ op = "revert"
    /\ Len(log) > 0
    /\ Last = Ev(runs, "revert", "start", create_group)
    /\ \A c \in Range(create_users) : InLog("revert", "effect", c)


HandlerReturned(o) == pc = "idle" /\ op = o
Spawned(o) == ~UG_serial(host, o) /\ \E c \in Range(create_users) : InLog(o, "start", c)

\* C12: a parallel composite returns, with success or with an error, only
\* after every task it spawned has finished: when execute or revert has
\* returned, no spawned task was still unfinished and aborted by the return.
C12_ParentWaitsForAllChildren ==
    \A o \in {"execute", "revert"} :
        HandlerReturned(o) =>
            \A c \in Range(create_users) :
                /\ ~InLog(o, "abort", c)
                /\ InLog(o, "start", c) =>
                    \E e \in {"ok", "err", "panic"} : InLog(o, e, c)

\* The children of the latest run that failed.
FailedKids(o) ==
    {c \in Range(create_users) : InLog(o, "err", c) \/ InLog(o, "panic", c)}

\* C13: when the parallel phase of a run has ended, one failed child makes
\* the composite return that child's error as it is, k >= 2 failed children
\* make it return one Children error holding exactly k errors, and with no
\* failed child execute returns Ok (revert goes on to create_group).
C13_OneErrorUnwrappedManyAggregated ==
    \A o \in {"execute", "revert"} :
        (HandlerReturned(o) /\ Spawned(o)) =>
            LET k == Cardinality(FailedKids(o)) IN
                /\ k = 1 => ret \in {"err", "join"}
                /\ k >= 2 => (ret = "children" /\ errors = k)
                /\ k = 0 =>
                    (ret = "ok" \/ (o = "revert" /\ InLog(o, "err", create_group)))

\* A child whose task returned Ok while the parent still holds it Completed.
RevertedKid(i) ==
    /\ op = "revert"
    /\ i \in DOMAIN tasks
    /\ tasks[i].phase = "ok"
    /\ children[create_users[i]] = Completed

\* C14 as claimed: a child that is Completed when its composite is reverted
\* has its inverse effect performed and ends Uncompleted.
C14_CompletedChildIsUndone ==
    /\ \A i \in 1..NumUsers :
        RevertedKid(i) =>
            /\ InLog("revert", "effect", create_users[i])
            /\ tasks[i].state = Uncompleted
    /\ (HandlerReturned("revert") /\ ret = "ok") =>
        \A c \in Range(create_users) : children[c] = Uncompleted

\* C14 as amended: a child that is Completed when its composite is reverted
\* has its revert handler run; once that returns Ok the child is Uncompleted,
\* in the clone and, after a successful revert of the composite, in the
\* parent. The inverse effect (userdel) is performed on every host but macOS,
\* where CreateUser's revert changes nothing.
C14_CompletedChildRevertRuns ==
    /\ \A i \in 1..NumUsers :
        /\ RevertedKid(i) =>
            /\ InLog("revert", "effect", create_users[i]) <=> host # "MacOS"
            /\ tasks[i].state = Uncompleted
        /\ (op = "revert" /\ i \in DOMAIN tasks /\ tasks[i].phase = "running"
            /\ children[create_users[i]] = Completed) =>
                tasks[i].state = Progress
    /\ (HandlerReturned("revert") /\ ret = "ok") =>
        \A c \in Range(create_users) : children[c] = Uncompleted

\* The first handler run is a revert, so every Completed child is one that
\* plan marked Completed; on macOS such a child's revert returned Ok.
C14_Witness ==
    /\ runs = 1
    /\ host = "MacOS"
    /\ \E i \in 1..NumUsers : RevertedKid(i)


\* =========================================================================
\* Properties of the install subcommand (checked under SpecInstall)
\* =========================================================================
InI(e, i) == Iv(e, i) \in Range(ilog)

At(e, i) == CHOOSE k \in 1..Len(ilog) : ilog[k] = Iv(e, i)

Indices == 1..NumActions

\* install_plan.install returned Err at action i: its execute failed, or the
\* loop was cancelled on coming to it.
FailedAt(i) == InI("execute_err", i)
StoppedAt(i) == InI("execute_err", i) \/ InI("cancelled", i)

\* C15: when the execute of the top-level action i has failed and the run is
\* over (the user not having declined the revert), no later action was
\* executed, the actions before i were reverted from i-1 downwards, and
\* action i was not reverted and is in Progress.
C15_FailureUnwindsPrecedingOnly ==
    \A i \in Indices :
        (ipc = "done" /\ exit_code # "clean_exit" /\ FailedAt(i)) =>
            /\ \A j \in Indices : j > i => ~InI("execute_call", j)
            /\ \A j \in Indices : j < i => InI("revert_call", j)
            /\ \A j, k \in Indices :
                (j < k /\ k < i) => At("revert_call", k) < At("revert_call", j)
            /\ ~InI("revert_call", i)
            /\ install_plan.actions[i] = Progress

C17_NoConfirmRevertsOnFailure ==
    \A i \in Indices :
        (ipc = "done" /\ no_confirm /\ StoppedAt(i)) =>
            /\ exit_code \in {"FAILURE", "Err"}
            /\ ~InI("ask", 0)
            /\ \A j \in Indices : j < i => InI("revert_call", j)

Mismatch ==
    /\ existing_receipt.kind = "receipt"
    /\ selection \in {"planner", "default"}
    /\ \/ existing_receipt.planner # chosen.tag
       \/ existing_receipt.settings # chosen.settings

\* C18: with a receipt whose planner differs from the chosen one, or whose
\* planner agrees and whose settings differ, install ends in failure with
\* nothing planned, executed or written; a different planner is reported
\* even when the settings differ too.
C18_MismatchedReceiptRefused ==
    (Mismatch /\ ipc # "start") =>
        /\ ipc = "done"
        /\ exit_code \in {"FAILURE", "Err"}
        /\ ilog = <<>>
        /\ install_plan = NoPlan
        /\ exit_code = "FAILURE" =>
            stderr = (IF existing_receipt.planner # chosen.tag
                      THEN "different planner"
                      ELSE "different planner settings")

\* Planner and settings both differ: the planner is what is reported.
C18_Witness ==
    /\ existing_receipt.kind = "receipt"
    /\ selection \in {"planner", "default"}
    /\ existing_receipt.planner # chosen.tag
    /\ existing_receipt.settings # chosen.settings
    /\ exit_code = "FAILURE"
    /\ stderr = "different planner"

\* C19: with a receipt whose actions are all Completed, every install run
\* ends in failure with no action executed, however the plan was selected.
C19_CompletedReceiptRefused ==
    (existing_receipt.kind = "receipt" /\ AllCompleted(existing_receipt)) =>
        /\ \A j \in Indices : ~InI("execute_call", j)
        /\ ipc = "done" => exit_code # "SUCCESS"

Resumable ==
    /\ existing_receipt.kind = "receipt"
    /\ selection \in {"planner", "default"}
    /\ existing_receipt.planner = chosen.tag
    /\ existing_receipt.settings = chosen.settings
    /\ ~AllCompleted(existing_receipt)

\* C20: with a receipt of the chosen planner and settings that has an
\* action not Completed, the plan installed is the receipt: its actions with
\* their recorded states, untouched until the run calls them, and plan() is
\* never called.
C20_ReceiptResumed ==
    (Resumable /\ ipc # "start") =>
        \/ ipc = "done" /\ exit_code = "Err" /\ install_plan = NoPlan /\ ilog = <<>>
        \/ /\ install_plan.origin = "receipt"
           /\ install_plan.planner = existing_receipt.planner
           /\ install_plan.settings = existing_receipt.settings
           /\ ~InI("plan", 0)
           /\ \A j \in Indices :
                (~InI("execute_call", j) /\ ~InI("revert_call", j)) =>
                    install_plan.actions[j] = existing_receipt.actions[j]

\* A receipt with its first action Completed and its last in Progress was
\* resumed and installed.
C20_Witness ==
    /\ Resumable
    /\ existing_receipt.actions[1] = Completed
    /\ existing_receipt.actions[NumActions] = Progress
    /\ install_plan.origin = "receipt"
    /\ exit_code = "SUCCESS"
    /\ \A j \in Indices : InI("execute_ok", j)

\* =========================================================================
\* Properties of CreateOrMergeNixConfig (checked under SpecNixConfig)
\* =========================================================================
\* plan() has returned Ok and nothing was called since.
JustPlanned == conf_result.op = "plan" /\ conf_result.res = "Ok"

PlanFailedWith(e) == conf_pc = "refused" /\ conf_result.err = e

\* The value the file seen by plan() gives to k.
PlanTimeValue(k) == parse_file(conf_seen.plan).settings[k]

\* The file seen by plan() satisfies the pending setting k.
Satisfied(k) ==
    /\ k \in NamesOf(conf_seen.plan)
    /\ \A i \in DOMAIN pending_nix_config[k] :
           Contains(PlanTimeValue(k), pending_nix_config[k][i])

\* The pending keys the file holds with a value that lacks a pending token
\* and that may not be merged.
Conflicts ==
    {k \in DOMAIN pending_nix_config :
        /\ k \in NamesOf(conf_seen.plan)
        /\ ~Satisfied(k)
        /\ k \notin MERGEABLE_CONF_NAMES}

\* What holds whenever plan() fails with UnmergeableConfig.
UnmergeableReport ==
    PlanFailedWith("UnmergeableConfig")
    => /\ Range(conf_result.names) = Conflicts
       /\ conf_result.path = Path
       /\ path_file = conf_seen.plan
       /\ path_file.kind = "file"

\* C22 as stated: plan fails with UnmergeableConfig(keys, path) exactly when
\* some pending key is in the file with a value lacking a pending token and
\* is not mergeable; keys is that set, path the planned path, and the file is
\* unchanged and present.
C22_UnmergeableExactlyOnConflict ==
    conf_pc # "start"
    => /\ PlanFailedWith("UnmergeableConfig") <=> Conflicts # {}
       /\ UnmergeableReport

\* plan() got as far as comparing settings: a regular file of mode 0o644
\* that parses.
Comparable(f) ==
    f.kind = "file" /\ f.mode = NIX_CONF_MODE /\ parse_file(f).ok

\* C22 amended: for a regular file of mode 0o644 that parses, plan fails with
\* UnmergeableConfig exactly when there is such a key; and whenever it fails
\* so, keys is exactly the set of such keys, path is the planned path and the
\* file is unchanged and present.
C22_UnmergeableExactlyOnConflictInComparableFile ==
    conf_pc # "start"
    => /\ Comparable(conf_seen.plan)
          => (PlanFailedWith("UnmergeableConfig") <=> Conflicts # {})
       /\ UnmergeableReport

\* plan() refuses over two unmergeable keys at once.
C22_Witness ==
    /\ PlanFailedWith("UnmergeableConfig")
    /\ Cardinality(Conflicts) = 2

\* The positions of token t in value v.
Occurrences(v, t) == {i \in DOMAIN v : v[i] = t}

\* C23: for a mergeable key whose pending tokens are not all in the existing
\* value, the merged value holds exactly the pending and the existing
\* tokens, each exactly once, the pending tokens before the tokens that only
\* the existing value has.
C23_MergedValueIsDuplicateFreeUnion ==
    JustPlanned
    => \A k \in DOMAIN pending_nix_config \cap MERGEABLE_CONF_NAMES :
        (k \in NamesOf(conf_seen.plan) /\ ~Satisfied(k))
        => /\ k \in DOMAIN nix_configs.merged_nix_config
           /\ LET p == pending_nix_config[k]
                  e == PlanTimeValue(k)
                  v == nix_configs.merged_nix_config[k]
              IN  /\ Range(v) = Range(p) \cup Range(e)
                  /\ \A t \in Range(v) : Cardinality(Occurrences(v, t)) = 1
                  /\ \A i, j \in DOMAIN v :
                        (v[i] \in Range(p) /\ v[j] \notin Range(p)) => i < j

\* C24: a successful plan() returns Completed exactly when the file exists
\* and satisfies every pending key; otherwise it returns Uncompleted, the
\* merged set holding the pending keys the file does not satisfy (all of
\* them when there is no file), a key the file lacks with its pending value.
C24_CompletedIffNothingToMerge ==
    JustPlanned
    => LET unsatisfied == {k \in DOMAIN pending_nix_config : ~Satisfied(k)}
           merged == nix_configs.merged_nix_config
       IN  /\ conf_state = Completed
              <=> (conf_seen.plan.kind = "file" /\ unsatisfied = {})
           /\ conf_state \in {Completed, Uncompleted}
           /\ conf_state = Uncompleted
              => /\ DOMAIN merged = unsatisfied
                 /\ \A k \in unsatisfied \ NamesOf(conf_seen.plan) :
                        merged[k] = pending_nix_config[k]

\* plan() finds a file that already holds what is pending.
C24_Witness ==
    /\ JustPlanned
    /\ conf_state = Completed
    /\ DOMAIN pending_nix_config # {}

\* execute() has run and returned Ok, and the file was not touched since.
JustExecuted ==
    /\ conf_result.op = "execute"
    /\ conf_result.res = "Ok"
    /\ conf_result.err # "skipped"
    /\ ~conf_seen.edited

\* The file at the path sets k to v, on one line only.
SetsOnce(k, v) ==
    /\ Cardinality({i \in SettingsOf(path_file) : path_file.lines[i].name = k}) = 1
    /\ \E i \in SettingsOf(path_file) :
           path_file.lines[i].name = k /\ path_file.lines[i].value = v

\* The settings a file held before it was rewritten: of the file execute()
\* found at the path, and of the file plan() had found there.
Original(f) == IF f.kind = "file" THEN parse_file(f).settings ELSE <<>>

\* C25: after execute() succeeds the file holds every key it held before
\* that is not in the merged set with its original value, every merged key
\* with its merged value, the generator comment, and no key twice; while
\* execute() has not renamed the temporary file, and when it fails, the file
\* at the path is as execute() found it.
C25_ExecuteRewritesFileAtomically ==
    /\ JustExecuted
       => LET merged == nix_configs.merged_nix_config
          IN  /\ \A f \in {conf_seen.execute, conf_seen.plan} :
                    \A k \in DOMAIN Original(f) \ DOMAIN merged :
                        SetsOnce(k, Original(f)[k])
              /\ \A k \in DOMAIN merged : SetsOnce(k, merged[k])
              /\ \E i \in DOMAIN path_file.lines : path_file.lines[i] = GeneratedBy
              /\ \A i, j \in SettingsOf(path_file) :
                    path_file.lines[i].name = path_file.lines[j].name => i = j
    /\ \/ conf_pc \in {"open", "write", "set_permissions", "rename"}
       \/ conf_result.op = "execute" /\ conf_result.res = "Err"
       => path_file = conf_seen.execute

\* execute() has rewritten a file that held a key it keeps and a key it
\* merges.
C25_Witness ==
    /\ JustExecuted
    /\ DOMAIN Original(conf_seen.execute) \ DOMAIN nix_configs.merged_nix_config # {}
    /\ DOMAIN Original(conf_seen.execute) \cap DOMAIN nix_configs.merged_nix_config # {}

\* An execute() that failed at the rename, the temporary file fully written.
C25_FailureWitness ==
    /\ conf_result.op = "execute"
    /\ conf_result.err = "Rename"
    /\ temp_file.kind = "file"
    /\ path_file.kind = "file"

\* revert() has run on a Completed action and returned Ok.
RevertedCompleted ==
    /\ conf_result.op = "revert"
    /\ conf_result.pre = Completed
    /\ conf_result.res = "Ok"
    /\ conf_result.err # "skipped"

\* C26: after a successful revert of a Completed action nothing is at the
\* path, whether the action was completed by execute() or by plan(), and
\* whether or not the file was edited since or was there before planning.
C26_RevertDeletesFile ==
    RevertedCompleted => path_file.kind = "none"

\* The file was there before planning, was rewritten by execute(), edited
\* afterwards, and the revert succeeded.
C26_Witness ==
    /\ RevertedCompleted
    /\ conf_seen.plan.kind = "file"
    /\ conf_seen.edited
    /\ DOMAIN nix_configs.merged_nix_config # {}

\* =========================================================================
\* The wait for the Nix volume (checked under SpecVolume)
\* =========================================================================
\* One sleep separates every two consecutive attempts: at the head of the
\* loop every attempt made was followed by a sleep, after the loop every
\* attempt but the last.
SleepBetweenAttempts ==
    IF pc = "poll"
    THEN polls.sleeps = polls.attempts
    ELSE polls.attempts > 0 => polls.sleeps = polls.attempts - 1

\* C27 as stated: the wait runs `diskutil info /nix` at most 50 times, with
\* a 100 ms sleep between consecutive attempts, and no attempt is made after
\* one that succeeded.
C27_AtMostFiftyAttempts ==
    /\ polls.attempts <= 50
    /\ SleepBetweenAttempts
    /\ polls.late = 0

\* C27 amended: the wait runs `diskutil info /nix` at most 51 times (a first
\* attempt and at most 50 retries), with a 100 ms sleep between consecutive
\* attempts, and no attempt is made after one that succeeded.
C27_AtMostFiftyRetries ==
    /\ polls.attempts <= 51
    /\ SleepBetweenAttempts
    /\ polls.late = 0

\* The wait gave up: every attempt failed and the handler went on.
C27_Witness ==
    /\ pc # "poll"
    /\ polls.attempts = 51
    /\ polls.sleeps = 50
    /\ ~polls.success

\* =========================================================================
\* EnableOwnership's condition (checked under Spec)
\* =========================================================================
\* `diskutil info -plist <path>` reported GlobalPermissionsEnabled = v.
Reported(c, v) ==
    \E j \in DOMAIN c.cmds :
        c.cmds[j].cmd = "diskutil_info_plist" /\ c.cmds[j].out = v

RanEnableOwnership(c) ==
    \E j \in DOMAIN c.cmds : c.cmds[j].cmd = "diskutil_enableOwnership"

\* C28: EnableOwnership.execute runs `diskutil enableOwnership` if and only
\* if `diskutil info -plist` reported GlobalPermissionsEnabled = false, runs
\* none when it reported true, and a successful execute ends Completed.
C28_EnableOwnershipOnlyWhenDisabled ==
    \A i \in Calls :
        (action = "EnableOwnership" /\ history[i].op = "execute")
        => /\ RanEnableOwnership(history[i]) <=> Reported(history[i], "gpe_false")
           /\ Reported(history[i], "gpe_true") => ~RanEnableOwnership(history[i])
           /\ history[i].res = "ok" => history[i].post = Completed

\* =========================================================================
\* Properties of planning users and groups (checked under SpecPlan)
\* =========================================================================
\* C29: CreateUser.plan returns Completed when the lookup finds a user of
\* that name with the planned uid and gid, fails when it finds one with
\* another uid or another gid, and returns Uncompleted when it finds none;
\* the host's users and group are as they were before planning.
C29_CreateUserPlanByLookup ==
    /\ host_users = host_before.users
    /\ host_group = host_before.group
    /\ \A i \in DOMAIN planned.create_users :
        LET r == planned.create_users[i]
            e == host_before.users[i]
            matches == /\ e.uid = PlannedUid(i)
                       /\ e.gid = settings.nix_build_group_id
        IN  r.lookup
            => /\ (e.exists /\ matches)
                  => (r.res = "Ok" /\ r.state = Completed)
               /\ (e.exists /\ ~matches)
                  => /\ r.res = "Err"
                     /\ r.err \in {"UserUidMismatch", "UserGidMismatch"}
                     /\ plan_result.res = "Err"
               /\ ~e.exists => (r.res = "Ok" /\ r.state = Uncompleted)

\* The plan is returned with one user found complete and one to create.
C29_Witness ==
    /\ plan_pc = "done"
    /\ plan_result.res = "Ok"
    /\ \E i, j \in DOMAIN planned.create_users :
        /\ planned.create_users[i].state = Completed
        /\ planned.create_users[j].state = Uncompleted

\* C30: CreateGroup.plan returns Completed when a group of that name exists
\* with the planned gid, fails planning when it exists with another gid, and
\* returns Uncompleted when there is no such group.
C30_CreateGroupPlanByLookup ==
    plan_pc # "group"
    => /\ (host_group.exists /\ host_group.gid = settings.nix_build_group_id)
          => planned.create_group = Completed
       /\ (host_group.exists /\ host_group.gid # settings.nix_build_group_id)
          => /\ plan_pc = "done"
             /\ plan_result.res = "Err"
             /\ planned.create_users = <<>>
       /\ ~host_group.exists => planned.create_group = Uncompleted

\* =========================================================================
\* Termination of the wait for the Nix volume (checked under SpecVolumeLive)
\* =========================================================================
\* The event before the latest one.
Previous == log[Len(log) - 1]

\* What the wait loop keeps true: every failed attempt that did not end the
\* loop spent one token of the budget of 50; a command that could not be
\* run makes the handler return the error; giving up is followed by the
\* call of enable_ownership, not by a return.
WaitIsBounded ==
    /\ pc = "poll" => polls.sleeps + retry_tokens = 50
    /\ (Len(log) >= 2 /\ Previous.ev = "err" /\ Previous.c = "diskutil_info_nix")
       => (Last.ev = "return_err" /\ ret = "err" /\ pc = "idle")
    /\ (Len(log) >= 1 /\ Last.ev = "gave_up")
       => (pc = "call" /\ NV_steps[pos] = "enable_ownership" /\ ret = "none")

\* C40: the wait loop always terminates: a command that cannot be run makes
\* execute return an error, and when no attempt succeeds the loop ends once
\* the retry budget is spent and execute goes on to enable_ownership.
C40_WaitTerminates ==
    /\ []WaitIsBounded
    /\ (pc = "poll") ~> (pc # "poll")

\* The budget was spent without a success and enable_ownership was called.
C40_Witness ==
    /\ ~polls.success
    /\ polls.attempts > 50
    /\ retry_tokens = 0
    /\ Len(log) >= 1
    /\ Last.ev = "start"
    /\ Last.c = "enable_ownership"

\* =========================================================================
\* More properties of CreateUsersAndGroups (checked under SpecUsers)
\* =========================================================================
\* C37: on macOS no two CreateUser children are being reverted at the same
\* time during CreateUsersAndGroups.revert.
C37_MacSerialUserReverts ==
    (host = "MacOS" /\ op = "revert")
    => Cardinality(running \cap Range(create_users)) <= 1

\* C38: when the parallel execute has returned, the parent holds for each
\* child the state the child's own execute reached: Completed for a child
\* whose execute returned Ok, whatever its siblings did, and Progress for a
\* child whose execute returned an error.
C38_ParentHoldsChildStates ==
    (HandlerReturned("execute") /\ Spawned("execute"))
    => \A c \in Range(create_users) :
        /\ InLog("execute", "ok", c) => children[c] = Completed
        /\ InLog("execute", "err", c) => children[c] = Progress

\* C39: when a parallel execute or revert of CreateUsersAndGroups has
\* returned, create_users has the length it had and holds at each index the
\* child it held before, in whatever order the tasks finished.
C39_JoinKeepsChildAtIndex ==
    ((HandlerReturned("execute") \/ HandlerReturned("revert")) /\ runs > 0)
    => slots = create_users

\* Both tasks' clones were stored, the task of the second child having
\* finished before the task of the first.
C39_Witness ==
    /\ pc = "idle"
    /\ ret = "ok"
    /\ host = "Linux"
    /\ \E p, q \in 1..Len(log) :
        /\ p < q
        /\ log[p] = Ev(runs, op, "ok", create_users[2])
        /\ log[q] = Ev(runs, op, "ok", create_users[1])

\* =========================================================================
\* More properties of the leaf actions (checked under Spec)
\* =========================================================================
\* The actions of src/ that implement describe_execute / describe_revert
\* themselves.
Described == {"CreateGroup", "CreateVolume", "EnableOwnership", "CreateUser"}

\* describe_execute: no description when Completed, one otherwise.
describe_execute(a, st) ==
    IF st = Completed THEN <<>> ELSE <<"execute " \o a>>

\* describe_revert: CreateUser and CreateVolume return no description when
\* Uncompleted, CreateGroup returns none when Completed, EnableOwnership
\* returns none in either branch.
describe_revert(a, st) ==
    CASE a = "CreateGroup" -> IF st = Completed THEN <<>> ELSE <<"revert " \o a>>
      [] a = "EnableOwnership" -> <<>>
      [] OTHER -> IF st = Uncompleted THEN <<>> ELSE <<"revert " \o a>>

\* C34: describe_revert is empty exactly when the action is Uncompleted and
\* describe_execute is empty exactly when it is Completed.
C34_DescribeMirrorsState ==
    action \in Described
    => /\ describe_revert(action, action_state) = <<>> <=> action_state = Uncompleted
       /\ describe_execute(action, action_state) = <<>> <=> action_state = Completed

\* The calls made on MoveUnpackedNix.
MoveCalls(o) ==
    {i \in 1..Len(history) : action = "MoveUnpackedNix" /\ history[i].op = o}

GlobNotOne == Cmd("glob", "not_one")

\* C35 as stated: planning fails unless exactly one nix-* entry is found, so
\* no execute meets another number of entries; revert issues no file
\* operation.
C35_PlanAssertsOneMatch ==
    /\ \A found \in {"one", "not_one"} :
        MoveUnpackedNix_plan(found).res = "Ok" <=> found = "one"
    /\ \A i \in MoveCalls("execute") : GlobNotOne \notin Range(history[i].cmds)
    /\ \A i \in MoveCalls("revert") : history[i].cmds = <<>>

\* C35 amended: planning makes no check; an execute that finds another
\* number of entries than one panics on its assertion before any rename or
\* removal and leaves the state as it was; revert issues no file operation
\* and keeps the state.
C35_ExecuteAssertsOneMatch ==
    /\ \A found \in {"one", "not_one"} : MoveUnpackedNix_plan(found).res = "Ok"
    /\ \A i \in MoveCalls("execute") :
        GlobNotOne \in Range(history[i].cmds)
        => /\ history[i].res = "panic"
           /\ history[i].cmds = <<GlobNotOne>>
           /\ history[i].post = history[i].pre
    /\ \A i \in MoveCalls("revert") :
        /\ history[i].cmds = <<>>
        /\ history[i].res = "ok"
        /\ history[i].post = history[i].pre

\* A revert, then an execute that finds no single nix-* entry.
C35_Witness ==
    /\ action = "MoveUnpackedNix"
    /\ Len(history) = 2
    /\ history[1].op = "revert"
    /\ history[2].op = "execute"
    /\ history[2].res = "panic"
    /\ GlobNotOne \in Range(history[2].cmds)

\* =========================================================================
\* ConfigureShellProfile (action/common/configure_shell_profile.rs): one
\* CreateOrAppendFile child per profile file found, run as spawned tasks
\* =========================================================================
PROFILE_TARGETS ==
    <<"/etc/bashrc", "/etc/profile.d/nix.sh", "/etc/zshrc",
      "/etc/bash.bashrc", "/etc/zsh/zshrc">>

\* A profile file: whether it exists and how many times it holds the stanza
\* that imports Nix.
ProfileFile(e, n) == [exists |-> e, stanzas |-> n]

\* One way a child's handler can end: whether it succeeded and the file it
\* leaves.
FileOutcome(ok, f) == [ok |-> ok, file |-> f]

\* Faulty variant: a child is planned for every target.
plans_child_Always(f) == TRUE

\* `if !path.exists() { continue }`: a child is planned for a target that
\* exists.
plans_child(f) == f.exists

\* plan(): the paths of the children, in the order of PROFILE_TARGETS.
ConfigureShellProfile_plan(files) ==
    SelectSeq(PROFILE_TARGETS, LAMBDA p : plans_child(files[p]))

\* CreateOrAppendFile::execute: the file is opened with create(true), the
\* buffer is written at its end, the owner is set; any step can fail.
CreateOrAppendFile_execute(f) ==
    {FileOutcome(FALSE, f),
     FileOutcome(FALSE, ProfileFile(TRUE, f.stanzas)),
     FileOutcome(FALSE, ProfileFile(TRUE, f.stanzas + 1)),
     FileOutcome(TRUE, ProfileFile(TRUE, f.stanzas + 1))}

\* CreateOrAppendFile::revert: the stanza is taken out of the file, which is
\* kept.
CreateOrAppendFile_revert(f) ==
    {FileOutcome(FALSE, f),
     FileOutcome(TRUE, ProfileFile(f.exists, IF f.stanzas > 0 THEN f.stanzas - 1 ELSE 0))}

ConfigureShellProfile_plan_call ==
    /\ pc = "plan"
    /\ slots' = ConfigureShellProfile_plan(profile_files)
    /\ children' = [p \in Range(slots') |-> Uncompleted]
    /\ planned_files' = profile_files
    /\ pc' = "idle"
    /\ UNCHANGED <<leafVars, instVars, confVars, planVars, plnVars, encrypt,
                   tasks, running, errors, op, pos, retry_tokens, polls, ret,
                   runs, log, profile_files>>

\* set.spawn(..) for every child, on a clone of the child.
SH_spawn_all ==
    /\ tasks' = [i \in 1..Len(slots) |->
                    Task("spawned", children[slots[i]], enumerate(i), slots[i])]
    /\ pc' = "join"
    /\ UNCHANGED <<leafVars, instVars, confVars, planVars, plnVars, shVars,
                   encrypt, slots, children, running, pos, retry_tokens, polls>>

ConfigureShellProfile_execute ==
    /\ planned_files # <<>>
    /\ Begin("execute", <<>>)
    /\ SH_spawn_all

ConfigureShellProfile_revert ==
    /\ planned_files # <<>>
    /\ Begin("revert", <<>>)
    /\ SH_spawn_all

\* A task runs create_or_append_file_clone.try_execute(): nothing is done for
\* a Completed clone; the task can panic once the handler is entered.
SH_task_execute ==
    /\ op = "execute"
    /\ \E i \in DOMAIN tasks :
        /\ tasks[i].phase = "spawned"
        /\ LET p == tasks[i].child
               st == try_begin("execute", tasks[i].state)
           IN  IF st # Progress
               THEN /\ tasks' = [tasks EXCEPT ![i].phase = "ok"]
                    /\ UNCHANGED profile_files
               ELSE \E r \in CreateOrAppendFile_execute(profile_files[p]) :
                    \E res \in (IF r.ok THEN {"ok"} ELSE {"err", "panic"}) :
                        /\ profile_files' = [profile_files EXCEPT ![p] = r.file]
                        /\ tasks' = [tasks EXCEPT
                                        ![i].phase = res,
                                        ![i].state = try_end("execute", st, r.ok)]
    /\ UNCHANGED <<leafVars, instVars, confVars, planVars, plnVars, encrypt, slots, children, running,
                   errors, pc, op, pos, retry_tokens, polls, ret, runs, log,
                   planned_files>>

\* A task runs create_or_append_file_clone.revert(): the child's handler is
\* called as it is, whatever the clone's state, and the state is kept.
SH_task_revert ==
    /\ op = "revert"
    /\ \E i \in DOMAIN tasks :
        /\ tasks[i].phase = "spawned"
        /\ LET p == tasks[i].child IN
           \E r \in CreateOrAppendFile_revert(profile_files[p]) :
           \E res \in (IF r.ok THEN {"ok"} ELSE {"err", "panic"}) :
            /\ profile_files' = [profile_files EXCEPT ![p] = r.file]
            /\ tasks' = [tasks EXCEPT ![i].phase = res]
    /\ UNCHANGED <<leafVars, instVars, confVars, planVars, plnVars, encrypt, slots, children, running,
                   errors, pc, op, pos, retry_tokens, polls, ret, runs, log,
                   planned_files>>

\* set.join_next() yields a finished task: its clone replaces
\* create_or_append_files[idx], or its error is pushed, or its JoinError is
\* returned at once.
SH_join_next ==
    /\ pc = "join"
    /\ \E i \in DOMAIN tasks :
        /\ tasks[i].phase \in {"ok", "err", "panic"}
        /\ IF tasks[i].phase = "panic"
           THEN /\ UG_return(<<>>, "join")
                /\ UNCHANGED <<slots, children, errors>>
           ELSE /\ IF tasks[i].phase = "ok"
                   THEN /\ slots' = [slots EXCEPT ![tasks[i].idx] = tasks[i].child]
                        /\ children' = [children EXCEPT
                               ![slots[tasks[i].idx]] = tasks[i].state]
                        /\ errors' = errors
                   ELSE /\ errors' = errors + 1
                        /\ UNCHANGED <<slots, children>>
                /\ tasks' = [tasks EXCEPT ![i].phase = "joined"]
                /\ UNCHANGED <<pc, pos, retry_tokens, ret, log>>
    /\ UNCHANGED <<leafVars, instVars, baseVars, encrypt, running, op, polls, runs>>

\* set.join_next() yields None: one error is returned as it is, several as
\* MultipleCreateOrAppendFile(errors), none as Ok(()).
SH_join_done ==
    /\ pc = "join"
    /\ \A i \in DOMAIN tasks : tasks[i].phase = "joined"
    /\ UG_return(<<>>, IF errors = 0 THEN "ok"
                       ELSE IF errors = 1 THEN "err" ELSE "children")
    /\ UNCHANGED <<leafVars, instVars, baseVars, encrypt, slots, children, running,
                   errors, op, polls, runs>>

\* The profile files that exist on a modelled host, at most.
MaxProfiles == 2

\* The profile files a host may have before the plan.
ShellInit ==
    /\ NoLeaf
    /\ host = "Linux"
    /\ InstIdle
    /\ ConfIdle
    /\ PlanIdle
    /\ PlannerIdle
    /\ encrypt = FALSE
    /\ slots = <<>>
    /\ children = <<>>
    /\ tasks = <<>>
    /\ running = {}
    /\ errors = 0
    /\ pc = "plan"
    /\ op = "none"
    /\ pos = 0
    /\ retry_tokens = 0
    /\ polls = NoPolls
    /\ ret = "none"
    /\ runs = 0
    /\ log = <<>>
    /\ \E found \in SUBSET Range(PROFILE_TARGETS) :
        /\ Cardinality(found) <= MaxProfiles
        /\ profile_files = [p \in Range(PROFILE_TARGETS) |->
                                ProfileFile(p \in found, 0)]
    /\ planned_files = <<>>

ShellNext ==
    \/ ConfigureShellProfile_plan_call
    \/ ConfigureShellProfile_execute
    \/ ConfigureShellProfile_revert
    \/ SH_task_execute
    \/ SH_task_revert
    \/ SH_join_next
    \/ SH_join_done

SpecShell == ShellInit /\ [][ShellNext]_vars

MaxPlans == 2

LinuxMulti ==
    [kind |-> "linux-multi", volume_encrypt |-> FALSE, volume_label |-> "",
     root_disk |-> "none"]

\* DarwinMulti with its --volume-encrypt, --volume-label and --root-disk.
DarwinMulti(enc, label, disk) ==
    [kind |-> "darwin-multi", volume_encrypt |-> enc, volume_label |-> label,
     root_disk |-> disk]

Planners ==
    {LinuxMulti}
    \cup {DarwinMulti(enc, label, disk) :
            enc \in BOOLEAN, label \in {"Nix Store", "Nix"},
            disk \in {"none", "disk1"}}

\* The plan of an action that a planner puts in its list.
PlannedAction(a, args) == [action |-> a, args |-> args]

\* The child plans whose failure the host decides, and the two commands or
\* lookups that can fail on a host.
Faults ==
    {"none", "CreateDirectory", "ProvisionNix", "ConfigureNix",
     "StartSystemdUnit", "CreateApfsVolume", "KickstartLaunchctlService",
     "lookup", "diskutil"}

\* The hosts plan() is called on: whether /etc/NIXOS and /nix exist, what is
\* at /etc/nix/nix.conf, the build users, the disk `diskutil info -plist /`
\* reports, and what fails.
Machines ==
    [etc_nixos : BOOLEAN,
     nix : BOOLEAN,
     nix_conf : {NoFile, Dir, File(NIX_CONF_MODE, <<>>)},
     users : {us \in [1..NumUsers -> {NoEntry, Entry(UidBase, 3000), Entry(UidBase, 3001)}] :
                \A i \in 2..NumUsers : us[i] = NoEntry},
     parent_whole_disk : {"disk3"},
     fault : Faults]

\* The settings ConfigureNix plans /etc/nix/nix.conf with.
PlannerConf == [n \in {"experimental-features"} |-> <<"nix-command", "flakes">>]

\* Faulty variant: planning creates /nix.
plan_access_CreatesNix(h) == [h EXCEPT !.nix = TRUE]

\* The host after plan() and the plans it calls have looked at it: exists(),
\* metadata(), from_name() and `diskutil info` change nothing.
plan_access(h) == h

\* Whether the plan of child a fails on host h. ProvisionNix plans the build
\* users and ConfigureNix the nix.conf; the other plans fail as the host
\* has it.
child_plan_fails(a, h) ==
    \/ h.fault = a
    \/ /\ a = "ProvisionNix"
       /\ \E i \in 1..NumUsers :
            CreateUser_plan(h.fault # "lookup", h.users[i], UidBase + i - 1,
                            3000).res = "Err"
    \/ /\ a = "ConfigureNix"
       /\ CreateOrMergeNixConfig_plan(h.nix_conf, PlannerConf).res = "Err"

\* Faulty variant: ConfigureNix is planned before ProvisionNix.
LinuxMulti_plan_actions_Swapped ==
    <<PlannedAction("CreateDirectory", <<"/nix", "None", "None", "0o0755", "true">>),
      PlannedAction("ConfigureNix", <<>>),
      PlannedAction("ProvisionNix", <<>>),
      PlannedAction("StartSystemdUnit", <<"nix-daemon.socket">>)>>

\* The vec![..] of LinuxMulti::plan.
LinuxMulti_plan_actions ==
    <<PlannedAction("CreateDirectory", <<"/nix", "None", "None", "0o0755", "true">>),
      PlannedAction("ProvisionNix", <<>>),
      PlannedAction("ConfigureNix", <<>>),
      PlannedAction("StartSystemdUnit", <<"nix-daemon.socket">>)>>

\* The vec![..] of DarwinMulti::plan: the volume is planned on self.root_disk
\* with the label "Nix Store", case-insensitive, with no encryption.
DarwinMulti_plan_actions(this) ==
    <<PlannedAction("CreateApfsVolume", <<this.root_disk, "Nix Store", "false", "None">>),
      PlannedAction("ProvisionNix", <<>>),
      PlannedAction("ConfigureNix", <<>>),
      PlannedAction("KickstartLaunchctlService", <<"system/org.nixos.nix-daemon">>)>>

Planner_plan_actions(this) ==
    IF this.kind = "linux-multi" THEN LinuxMulti_plan_actions
    ELSE DarwinMulti_plan_actions(this)

InstallPlan(res, err, this, actions) ==
    [res |-> res, err |-> err, planner |-> this, actions |-> actions]

\* plan() returns r; the actions planned so far go with an error.
Planner_returns(r) ==
    /\ pl_result' = r
    /\ pl_pc' = "idle"
    /\ pl_actions' = <<>>

\* plan(self) is called.
Planner_plan ==
    /\ pl_pc = "idle"
    /\ pl_seen.calls < MaxPlans
    /\ pl_self' = planner
    /\ pl_actions' = <<>>
    /\ pl_pc' = "start"
    /\ pl_result' = NoInstallPlan
    /\ pl_seen' = [pl_seen EXCEPT !.calls = @ + 1, !.prev = pl_result,
                                  !.probes = 0, !.planned = 0]
    /\ UNCHANGED <<leafVars, compVars, instVars, confVars, planVars, shVars,
                   planner, machine>>

\* LinuxMulti: `if Path::new("/etc/NIXOS").exists() { return Err(NixOs) }`.
LinuxMulti_plan_check ==
    /\ pl_pc = "start"
    /\ pl_self.kind = "linux-multi"
    /\ machine' = plan_access(machine)
    /\ IF machine.etc_nixos
       THEN Planner_returns(InstallPlan("Err", "NixOs", NoPlanner, <<>>))
       ELSE /\ pl_pc' = "actions"
            /\ UNCHANGED <<pl_result, pl_actions>>
    /\ UNCHANGED <<leafVars, compVars, instVars, confVars, planVars, shVars,
                   planner, pl_self, pl_seen>>

\* DarwinMulti: root_disk is kept when it is set; when it is not, `diskutil
\* info -plist /` is run and unwrapped, and its parent_whole_disk is taken.
DarwinMulti_plan_root_disk ==
    /\ pl_pc = "start"
    /\ pl_self.kind = "darwin-multi"
    /\ machine' = plan_access(machine)
    /\ IF pl_self.root_disk # "none"
       THEN /\ pl_pc' = "actions"
            /\ UNCHANGED <<pl_self, pl_seen, pl_result, pl_actions>>
       ELSE /\ pl_seen' = [pl_seen EXCEPT !.probes = @ + 1]
            /\ IF machine.fault = "diskutil"
               THEN /\ Planner_returns(InstallPlan("panic", "", NoPlanner, <<>>))
                    /\ UNCHANGED pl_self
               ELSE /\ pl_self' = [pl_self EXCEPT
                                      !.root_disk = machine.parent_whole_disk]
                    /\ pl_pc' = "actions"
                    /\ UNCHANGED <<pl_result, pl_actions>>
    /\ UNCHANGED <<leafVars, compVars, instVars, confVars, planVars, shVars,
                   planner>>

\* The next element of the vec![..] is planned; `?` returns its error, which
\* LinuxMulti wraps in Error::Action.
Planner_plan_action ==
    /\ pl_pc = "actions"
    /\ Len(pl_actions) < Len(Planner_plan_actions(pl_self))
    /\ LET a == Planner_plan_actions(pl_self)[Len(pl_actions) + 1] IN
        /\ machine' = plan_access(machine)
        /\ pl_seen' = [pl_seen EXCEPT !.planned = @ + 1]
        /\ IF child_plan_fails(a.action, machine)
           THEN Planner_returns(InstallPlan("Err",
                    IF pl_self.kind = "linux-multi" THEN "Action" ELSE a.action,
                    NoPlanner, <<>>))
           ELSE /\ pl_actions' = Append(pl_actions, a)
                /\ UNCHANGED <<pl_pc, pl_result>>
    /\ UNCHANGED <<leafVars, compVars, instVars, confVars, planVars, shVars,
                   planner, pl_self>>

\* Ok(InstallPlan { planner: Box::new(self.clone()), actions }).
Planner_plan_return ==
    /\ pl_pc = "actions"
    /\ Len(pl_actions) = Len(Planner_plan_actions(pl_self))
    /\ Planner_returns(InstallPlan("Ok", "", pl_self, pl_actions))
    /\ UNCHANGED <<leafVars, compVars, instVars, confVars, planVars, shVars,
                   planner, machine, pl_self, pl_seen>>

PlannerInit ==
    /\ NoLeaf
    /\ CompIdle
    /\ InstIdle
    /\ ConfIdle
    /\ PlanIdle
    /\ ShellIdle
    /\ planner \in Planners
    /\ host = (IF planner.kind = "linux-multi" THEN "Linux" ELSE "MacOS")
    /\ machine \in Machines
    /\ pl_self = NoPlanner
    /\ pl_pc = "idle"
    /\ pl_actions = <<>>
    /\ pl_result = NoInstallPlan
    /\ pl_seen = [calls |-> 0, prev |-> NoInstallPlan, probes |-> 0,
                  planned |-> 0, host |-> machine]

PlannerNext ==
    \/ Planner_plan
    \/ LinuxMulti_plan_check
    \/ DarwinMulti_plan_root_disk
    \/ Planner_plan_action
    \/ Planner_plan_return

SpecPlanner == PlannerInit /\ [][PlannerNext]_vars

\* A call of plan() on a planner of kind k has returned.
Planned_by(k) == pl_pc = "idle" /\ pl_seen.calls > 0 /\ planner.kind = k

\* C31: LinuxMulti.plan fails with NixOs before planning any action when
\* /etc/NIXOS exists; otherwise it returns the four actions in their order
\* when every one of their plans succeeds and fails when one of them fails.
C31_LinuxPlan ==
    Planned_by("linux-multi")
    => LET wanted ==
               <<PlannedAction("CreateDirectory",
                               <<"/nix", "None", "None", "0o0755", "true">>),
                 PlannedAction("ProvisionNix", <<>>),
                 PlannedAction("ConfigureNix", <<>>),
                 PlannedAction("StartSystemdUnit", <<"nix-daemon.socket">>)>>
           failing == {k \in 1..4 : child_plan_fails(wanted[k].action, machine)}
       IN  IF machine.etc_nixos
           THEN /\ pl_result.res = "Err"
                /\ pl_result.err = "NixOs"
                /\ pl_seen.planned = 0
           ELSE IF failing = {}
           THEN /\ pl_result.res = "Ok"
                /\ pl_result.actions = wanted
                /\ pl_result.planner = planner
           ELSE /\ pl_result.res = "Err"
                /\ pl_result.err = "Action"
                /\ pl_result.actions = <<>>
                /\ \A k \in failing : pl_seen.planned <= k

\* A plan of four actions was returned on a host without /etc/NIXOS.
C31_Witness ==
    /\ Planned_by("linux-multi")
    /\ ~machine.etc_nixos
    /\ pl_result.res = "Ok"
    /\ Len(pl_result.actions) = 4

\* C32: the volume DarwinMulti.plan plans has the planner's root_disk (the
\* probed disk when it is unset, and no probe when it is set), the planner's
\* volume_label, case_sensitive = false and the planner's volume_encrypt, and
\* the plan is volume, ProvisionNix, ConfigureNix, KickstartLaunchctlService.
C32_DarwinPlanUsesSettings ==
    (Planned_by("darwin-multi") /\ pl_result.res = "Ok")
    => LET volume == pl_result.actions[1].args IN
        /\ volume[1] = (IF planner.root_disk # "none" THEN planner.root_disk
                        ELSE machine.parent_whole_disk)
        /\ pl_seen.probes = (IF planner.root_disk # "none" THEN 0 ELSE 1)
        /\ volume[2] = planner.volume_label
        /\ volume[3] = "false"
        /\ (volume[4] # "None") = planner.volume_encrypt
        /\ [k \in 1..4 |-> pl_result.actions[k].action]
             = <<"CreateApfsVolume", "ProvisionNix", "ConfigureNix",
                 "KickstartLaunchctlService">>
        /\ pl_result.actions[4].args = <<"system/org.nixos.nix-daemon">>

====
